---------------------------- MODULE Spec2Model ----------------------------
(***************************************************************************)
(* Time Capsule File System (chronovault): the time-lock Policy            *)
(* (Policy.hpp / Policy.cpp), the two crypto providers                     *)
(* (OpenSSLCryptoProvider.cpp) and the lock / unlock commands of the CLI   *)
(* (main.cpp).                                                             *)
(*                                                                         *)
(* Time.  Policy::TimePoint is std::chrono::system_clock::time_point, a    *)
(* signed 64-bit count of clock ticks (nanoseconds with libstdc++).  The   *)
(* model keeps the shape at a small scale: a TimePoint is a tick count in  *)
(* MinTime..MaxTime, one second is TicksPerSec ticks, grace_seconds is an  *)
(* unsigned number in 0..MaxGrace, and MaxGrace seconds are less than half *)
(* the positive tick range, as 2^32 s = 4.29e18 ns is of 2^63 ns.  Tick    *)
(* arithmetic that leaves the range wraps (two's complement), which is     *)
(* what the GCC/libstdc++ build does at -O0 and -O2.                       *)
(*                                                                         *)
(* The wall clock (time_utils::now) is the variable now.  It starts        *)
(* anywhere at or after the epoch and only moves forward.                  *)
(***************************************************************************)
EXTENDS Integers, Sequences, FiniteSets, TLC

MaxTime == 31
MaxGrace == 7
TicksPerSec == 2
MaxNow == 6
MaxRuns == 2

MinTime == -(MaxTime + 1)
TimeMod == 2 * (MaxTime + 1)
TimePoints == MinTime..MaxTime
GraceValues == 0..MaxGrace

VARIABLES
    now,        \* the wall clock, in ticks since the epoch
    policy,     \* a Policy object under authoring (library use)
    ret,        \* what the last const query on policy returned
    reachedOnce,\* is_unlock_time_reached() has returned true since policy last changed
    backend,    \* the provider createCryptoProvider() returns in this build
    config,     \* <store>/config.json
    files,      \* the input file, the store's ciphertext and metadata files, the output file
    sealed,     \* what cmd_lock last sealed into the store, while the store still holds it
    pc,         \* where the running CLI command stands
    frame,      \* the running command's locals
    last,       \* how the last finished command ended
    runs        \* commands started so far

polVars == <<policy, ret, reachedOnce>>
cliVars == <<backend, config, files, sealed, pc, frame, last, runs>>

(***************************************************************************)
(* Signed tick arithmetic of TimePoint::rep.                               *)
(***************************************************************************)
WrapTime(x) == ((x - MinTime) % TimeMod) + MinTime

\* std::chrono::duration_cast<seconds>: integer division truncating toward zero
duration_cast_seconds(d) ==
    IF d >= 0 THEN d \div TicksPerSec ELSE -((-d) \div TicksPerSec)

\* std::chrono::seconds(grace_seconds_) converted to the clock's tick period
grace_duration(p) == p.grace_seconds * TicksPerSec

\* unlock_at_ - grace_duration, computed in TimePoint::rep
effective_unlock_time(p) == WrapTime(p.unlock_at - grace_duration(p))

(***************************************************************************)
(* Result<void> / Result<T>                                                *)
(***************************************************************************)
ResultOk(v) == [has_value |-> TRUE, value |-> v]
ResultErr(code, msg) == [has_value |-> FALSE, error |-> code, error_message |-> msg]
ResultVoid == [has_value |-> TRUE]

(***************************************************************************)
(* Policy                                                                  *)
(***************************************************************************)
\* a default-constructed Policy whose kdf_ is Argon2id
DefaultPolicyArgon2id ==
    [unlock_at |-> 0, owner |-> "", label |-> "", notes |-> "",
     grace_seconds |-> 0, algorithm |-> "AES_256_GCM", kdf |-> "Argon2id"]

DefaultPolicy ==
    [unlock_at |-> 0, owner |-> "", label |-> "", notes |-> "",
     grace_seconds |-> 0, algorithm |-> "AES_256_GCM", kdf |-> "PBKDF2"]

\* is_unlock_time_reached with the grace period subtracted twice
is_unlock_time_reached_grace_twice(p, t) ==
    t >= WrapTime(effective_unlock_time(p) - grace_duration(p))

is_unlock_time_reached(p, t) == t >= effective_unlock_time(p)

time_remaining(p, t) ==
    LET effective == effective_unlock_time(p) IN
    IF t >= effective THEN 0
    ELSE duration_cast_seconds(WrapTime(effective - t))

\* validate with the future-time comparison weakened from <= to <
validate_lt(p, t) ==
    IF p.owner = "" THEN ResultErr("InvalidPolicy", <<"Owner cannot be empty">>)
    ELSE IF p.unlock_at = 0 THEN ResultErr("InvalidPolicy", <<"Unlock time must be set">>)
    ELSE IF p.unlock_at < t
         THEN ResultErr("InvalidPolicy", <<"Unlock time must be in the future">>)
    ELSE ResultVoid

validate(p, t) ==
    IF p.owner = "" THEN ResultErr("InvalidPolicy", <<"Owner cannot be empty">>)
    ELSE IF p.unlock_at = 0 THEN ResultErr("InvalidPolicy", <<"Unlock time must be set">>)
    ELSE IF p.unlock_at <= t
         THEN ResultErr("InvalidPolicy", <<"Unlock time must be in the future">>)
    ELSE ResultVoid

(***************************************************************************)
(* Errors.cpp: to_string(ErrorCode) and TCFSException::what()              *)
(***************************************************************************)
ErrorString(code) ==
    CASE code = "CRYPTO_ERROR" -> "Cryptographic operation failed"
      [] code = "InvalidTimeFormat" -> "Invalid time format"
      [] code = "FILE_ACCESS_ERROR" -> "File access error"
      [] code = "FileNotFound" -> "File not found"
      [] code = "InvalidMetadata" -> "Invalid metadata"
      [] code = "InvalidPolicy" -> "Invalid policy configuration"
      [] code = "InvalidArgument" -> "Invalid argument"
      [] code = "TimeNotReached" -> "Unlock time has not been reached"
      [] code = "DecryptionFailed" -> "Decryption operation failed"
      [] code = "SUCCESS" -> "Success"
      [] OTHER -> "Unknown error"

what(code, message) ==
    <<ErrorString(code)>> \o (IF message # <<>> THEN <<": ">> \o message ELSE <<>>)

(***************************************************************************)
(* time_utils.  A timestamp text is kept by what it denotes: a text of the *)
(* form YYYY-MM-DDTHH:MM:SSZ (matches) whose fields pass the range checks  *)
(* (in_range) carries sec, the seconds since the epoch that timegm gives   *)
(* its fields.                                                             *)
(***************************************************************************)
Timestamp(n) == [matches |-> TRUE, in_range |-> TRUE, sec |-> n]
MalformedTimestamp == [matches |-> FALSE]
OutOfRangeTimestamp == [matches |-> TRUE, in_range |-> FALSE]

\* std::chrono::system_clock::from_time_t: seconds to ticks, in TimePoint::rep
from_time_t(sec) == WrapTime(sec * TicksPerSec)

\* std::chrono::system_clock::to_time_t
to_time_t(t) == duration_cast_seconds(t)

parse_rfc3339(timestamp) ==
    IF ~timestamp.matches
    THEN ResultErr("InvalidTimeFormat", <<"Invalid RFC3339 format">>)
    ELSE IF ~timestamp.in_range
    THEN ResultErr("InvalidTimeFormat", <<"Invalid date/time values">>)
    ELSE IF timestamp.sec = -1
    THEN ResultErr("InvalidTimeFormat", <<"Failed to convert to time_t">>)
    ELSE ResultOk(from_time_t(timestamp.sec))

format_rfc3339(t) == Timestamp(to_time_t(t))

(***************************************************************************)
(* Enum names, and the Policy's JSON document.  A JSON object is a         *)
(* function from its keys; a JSON value carries its type.                  *)
(***************************************************************************)
algorithm_to_string(algo) == IF algo = "AES_256_GCM" THEN "AES-256-GCM" ELSE "Unknown"

\* to_string(KDFType) giving the enumerator's name instead of its lower-case text
kdf_to_string_enumerator(kdf) == kdf

kdf_to_string(kdf) ==
    IF kdf = "PBKDF2" THEN "pbkdf2" ELSE IF kdf = "Argon2id" THEN "argon2id" ELSE "unknown"

crypto_algorithm_from_string(str) ==
    IF str = "AES-256-GCM" THEN ResultOk("AES_256_GCM")
    ELSE ResultErr("InvalidArgument", <<"Unknown crypto algorithm: ", str>>)

kdf_from_string(str) ==
    IF str = "pbkdf2" THEN ResultOk("PBKDF2")
    ELSE IF str = "argon2id" THEN ResultOk("Argon2id")
    ELSE ResultErr("InvalidArgument", <<"Unknown KDF type: ", str>>)

JString(v) == [t |-> "string", v |-> v]
JUnsigned(n) == [t |-> "unsigned", n |-> n]
contains(json, key) == key \in DOMAIN json
is_string(json, key) == contains(json, key) /\ json[key].t = "string"
is_number_unsigned(json, key) == contains(json, key) /\ json[key].t = "unsigned"

to_json(p) ==
    [unlock_at |-> JString(format_rfc3339(p.unlock_at)),
     owner |-> JString(p.owner),
     label |-> JString(p.label),
     notes |-> JString(p.notes),
     grace_seconds |-> JUnsigned(p.grace_seconds),
     algorithm |-> JString(algorithm_to_string(p.algorithm)),
     kdf |-> JString(kdf_to_string(p.kdf))]

\* the Policy that from_json has filled in when it reaches validate()
from_json_fields(json, unlock_at) ==
    LET algo == IF is_string(json, "algorithm")
                THEN crypto_algorithm_from_string(json["algorithm"].v)
                ELSE ResultErr("InvalidArgument", <<>>)
        kdf  == IF is_string(json, "kdf")
                THEN kdf_from_string(json["kdf"].v)
                ELSE ResultErr("InvalidArgument", <<>>)
    IN [unlock_at |-> unlock_at,
        owner |-> IF is_string(json, "owner") THEN json["owner"].v ELSE DefaultPolicy.owner,
        label |-> IF is_string(json, "label") THEN json["label"].v ELSE DefaultPolicy.label,
        notes |-> IF is_string(json, "notes") THEN json["notes"].v ELSE DefaultPolicy.notes,
        grace_seconds |-> IF is_number_unsigned(json, "grace_seconds")
                          THEN json["grace_seconds"].n ELSE DefaultPolicy.grace_seconds,
        algorithm |-> IF algo.has_value THEN algo.value ELSE DefaultPolicy.algorithm,
        kdf |-> IF kdf.has_value THEN kdf.value ELSE DefaultPolicy.kdf]

\* Policy::from_json(json), called at instant t.  set_unlock_time(string)
\* throws a TCFSException on a parse error, which the catch-all turns into
\* InvalidPolicy "JSON parsing error: " + what().
from_json(json, t) ==
    IF ~is_string(json, "unlock_at")
    THEN ResultErr("InvalidPolicy", <<"Missing or invalid unlock_at field">>)
    ELSE LET parsed == parse_rfc3339(json["unlock_at"].v) IN
         IF ~parsed.has_value
         THEN ResultErr("InvalidPolicy",
                        <<"JSON parsing error: ">> \o what(parsed.error, parsed.error_message))
         ELSE LET p == from_json_fields(json, parsed.value)
                  validation == validate(p, t)
              IN IF ~validation.has_value
                 THEN ResultErr(validation.error, validation.error_message)
                 ELSE ResultOk(p)

(***************************************************************************)
(* Library use of one Policy object: setters, the clock, const queries.    *)
(***************************************************************************)
Owners == {"", "u"}
NoRet == [op |-> "none"]

NoFile == [exists |-> FALSE]
File(c) == [exists |-> TRUE, content |-> c]
NoFrame == [cmd |-> "none"]
NoLast == [cmd |-> "none"]
NoSeal == [sealed |-> FALSE]

CliAtRest ==
    /\ backend = "mock"
    /\ config = NoFile
    /\ files = [input |-> NoFile, store_ct |-> NoFile, store_meta |-> NoFile, out |-> NoFile]
    /\ sealed = NoSeal
    /\ pc = "idle"
    /\ frame = NoFrame
    /\ last = NoLast
    /\ runs = 0

PolicyAtRest ==
    /\ policy = DefaultPolicy
    /\ ret = NoRet
    /\ reachedOnce = FALSE

InitPolicy ==
    /\ now \in 0..MaxNow
    /\ PolicyAtRest
    /\ CliAtRest

set_unlock_time_point(t) ==
    /\ UNCHANGED cliVars
    /\ policy' = [policy EXCEPT !.unlock_at = t]
    /\ ret' = NoRet
    /\ reachedOnce' = FALSE
    /\ UNCHANGED now

set_owner(o) ==
    /\ UNCHANGED cliVars
    /\ policy' = [policy EXCEPT !.owner = o]
    /\ ret' = NoRet
    /\ reachedOnce' = FALSE
    /\ UNCHANGED now

set_grace_seconds(g) ==
    /\ UNCHANGED cliVars
    /\ policy' = [policy EXCEPT !.grace_seconds = g]
    /\ ret' = NoRet
    /\ reachedOnce' = FALSE
    /\ UNCHANGED now

Tick ==
    /\ now < MaxNow
    /\ now' = now + 1
    /\ ret' = NoRet
    /\ UNCHANGED <<policy, reachedOnce>>
    /\ UNCHANGED cliVars

CallIsUnlockTimeReached ==
    /\ UNCHANGED cliVars
    /\ ret' = [op |-> "is_unlock_time_reached",
               val |-> is_unlock_time_reached(policy, now),
               before |-> reachedOnce]
    /\ reachedOnce' = (reachedOnce \/ is_unlock_time_reached(policy, now))
    /\ UNCHANGED <<now, policy>>

CallTimeRemaining ==
    /\ UNCHANGED cliVars
    /\ ret' = [op |-> "time_remaining", val |-> time_remaining(policy, now)]
    /\ UNCHANGED <<now, policy, reachedOnce>>

CallValidate ==
    /\ UNCHANGED cliVars
    /\ ret' = [op |-> "validate", val |-> validate(policy, now)]
    /\ UNCHANGED <<now, policy, reachedOnce>>

NextPolicy ==
    \/ \E t \in TimePoints : set_unlock_time_point(t)
    \/ \E o \in Owners : set_owner(o)
    \/ \E g \in GraceValues : set_grace_seconds(g)
    \/ Tick
    \/ CallIsUnlockTimeReached
    \/ CallTimeRemaining
    \/ CallValidate

vars == <<now, policy, ret, reachedOnce, backend, config, files, sealed, pc, frame, last, runs>>

SpecPolicy == InitPolicy /\ [][NextPolicy]_vars

\* the effective unlock instant as the specification states it, in exact arithmetic
EffectiveInstant(p) == p.unlock_at - p.grace_seconds * TicksPerSec

(***************************************************************************)
(* Bytes and text.  A byte is a number in 0..255, a byte vector a sequence *)
(* of bytes, a std::string a sequence of one-character strings.            *)
(***************************************************************************)
RECURSIVE BitXor(_, _)
BitXor(a, b) ==
    IF a = 0 THEN b
    ELSE IF b = 0 THEN a
    ELSE ((a + b) % 2) + 2 * BitXor(a \div 2, b \div 2)

RECURSIVE Concat(_)
Concat(ss) == IF ss = <<>> THEN <<>> ELSE Head(ss) \o Concat(Tail(ss))

HexLower == <<"0","1","2","3","4","5","6","7","8","9","a","b","c","d","e","f">>
HexUpper == <<"0","1","2","3","4","5","6","7","8","9","A","B","C","D","E","F">>

\* the value std::stoul(.., 16) gives one digit; -1 when it is no hex digit
HexDigitValue(c) ==
    IF \E i \in 1..16 : HexLower[i] = c
    THEN (CHOOSE i \in 1..16 : HexLower[i] = c) - 1
    ELSE IF \E i \in 1..16 : HexUpper[i] = c
    THEN (CHOOSE i \in 1..16 : HexUpper[i] = c) - 1
    ELSE -1

KeySize == 32
IVSize == 12
TagSize == 16
MockSuffix == <<"_","M","O","C","K","_","B","6","4">>

\* a thrown exception: {"TCFSException", "std::exception"} with its code
Thrown(kind, code, msg) == [thrown |-> TRUE, kind |-> kind, code |-> code, message |-> msg]
Returned(v) == [thrown |-> FALSE, value |-> v]

(***************************************************************************)
(* MockCryptoProvider (the build without TCFS_HAS_OPENSSL)                 *)
(***************************************************************************)
mock_tag(key) ==
    [j \in 1..TagSize |->
        LET idx == {i \in 1..Len(key) : ((i - 1) % TagSize) + 1 = j}
            F[S \in SUBSET idx] ==
                IF S = {} THEN 0
                ELSE LET i == CHOOSE x \in S : TRUE IN BitXor(key[i], F[S \ {i}])
        IN F[idx]]

mock_xor_stream(data, key, iv) ==
    [i \in 1..Len(data) |->
        BitXor(BitXor(data[i], key[((i - 1) % Len(key)) + 1]),
               iv[((i - 1) % Len(iv)) + 1])]

mock_encrypt(plaintext, key, iv) ==
    [ciphertext |-> mock_xor_stream(plaintext, key, iv),
     iv |-> <<>>,
     tag |-> mock_tag(key)]

\* a decrypt loop that leaves the IV out of the XOR
mock_decrypt_without_iv(encrypted, key, iv) ==
    IF encrypted.tag # mock_tag(key)
    THEN Thrown("TCFSException", "CRYPTO_ERROR", <<"Authentication failed - wrong key">>)
    ELSE Returned([i \in 1..Len(encrypted.ciphertext) |->
                      BitXor(encrypted.ciphertext[i], key[((i - 1) % Len(key)) + 1])])

mock_decrypt(encrypted, key, iv) ==
    IF encrypted.tag # mock_tag(key)
    THEN Thrown("TCFSException", "CRYPTO_ERROR", <<"Authentication failed - wrong key">>)
    ELSE Returned(mock_xor_stream(encrypted.ciphertext, key, iv))

mock_toHex(data) ==
    Concat([i \in 1..Len(data) |->
              <<HexLower[(data[i] \div 16) + 1], HexLower[(data[i] % 16) + 1]>>])

\* std::stoul(hex.substr(i, 2), nullptr, 16) for each pair; a pair that does
\* not start with a hex digit makes stoul throw std::invalid_argument
HexPairs(hex) ==
    [k \in 1..((Len(hex) + 1) \div 2) |->
        SubSeq(hex, 2 * k - 1, IF 2 * k <= Len(hex) THEN 2 * k ELSE 2 * k - 1)]

HexPairValue(pr) ==
    IF Len(pr) = 2 /\ HexDigitValue(pr[2]) >= 0
    THEN 16 * HexDigitValue(pr[1]) + HexDigitValue(pr[2])
    ELSE HexDigitValue(pr[1])

mock_fromHex(hex) ==
    LET prs == HexPairs(hex) IN
    IF \E k \in 1..Len(prs) : HexDigitValue(prs[k][1]) < 0
    THEN Thrown("std::exception", "invalid_argument", <<"stoul">>)
    ELSE Returned([k \in 1..Len(prs) |-> HexPairValue(prs[k])])

mock_toBase64(data) ==
    IF data = <<>> THEN <<>> ELSE mock_toHex(data) \o MockSuffix

mock_fromBase64(base64) ==
    IF Len(base64) < 9 \/ SubSeq(base64, Len(base64) - 8, Len(base64)) # MockSuffix
    THEN Thrown("TCFSException", "InvalidArgument", <<"Invalid mock base64 format">>)
    ELSE mock_fromHex(SubSeq(base64, 1, Len(base64) - 9))

(***************************************************************************)
(* OpenSSLCryptoProvider (the build with TCFS_HAS_OPENSSL).  The OpenSSL   *)
(* primitives are a library outside this repository; AES-256-GCM is        *)
(* modelled by its contract with a stand-in keystream and a stand-in       *)
(* 16-byte MAC over (key, iv, ciphertext) that changes whenever one byte   *)
(* of any of them changes.  BIO_f_base64 with BIO_FLAGS_BASE64_NO_NL is    *)
(* standard padded base64.                                                 *)
(***************************************************************************)
gcm_keystream(key, iv, i) ==
    (7 * key[((i - 1) % Len(key)) + 1] + 13 * iv[((i - 1) % Len(iv)) + 1] + 31 * i) % 256

RECURSIVE WeightedSum(_, _)
WeightedSum(data, i) ==
    IF i > Len(data) THEN 0 ELSE (2 * i + 1) * data[i] + WeightedSum(data, i + 1)

gcm_tag(key, iv, ciphertext) ==
    [j \in 1..TagSize |->
        (key[j] + 3 * key[j + TagSize] + 5 * iv[((j - 1) % Len(iv)) + 1]
           + WeightedSum(ciphertext, 1) + j) % 256]

openssl_encrypt(plaintext, key, iv) ==
    LET ct == [i \in 1..Len(plaintext) |->
                  BitXor(plaintext[i], gcm_keystream(key, iv, i))] IN
    [ciphertext |-> ct, iv |-> iv, tag |-> gcm_tag(key, iv, ct)]

openssl_decrypt(encrypted, key, iv) ==
    IF encrypted.tag # gcm_tag(key, iv, encrypted.ciphertext)
    THEN Thrown("TCFSException", "CRYPTO_ERROR",
                <<"Failed to finalize decryption - authentication failed", ": ",
                  "ERR_error_string">>)
    ELSE Returned([i \in 1..Len(encrypted.ciphertext) |->
                      BitXor(encrypted.ciphertext[i], gcm_keystream(key, iv, i))])

B64Alphabet ==
    <<"A","B","C","D","E","F","G","H","I","J","K","L","M","N","O","P",
      "Q","R","S","T","U","V","W","X","Y","Z","a","b","c","d","e","f",
      "g","h","i","j","k","l","m","n","o","p","q","r","s","t","u","v",
      "w","x","y","z","0","1","2","3","4","5","6","7","8","9","+","/">>

B64Value(c) ==
    IF \E i \in 1..64 : B64Alphabet[i] = c
    THEN (CHOOSE i \in 1..64 : B64Alphabet[i] = c) - 1
    ELSE -1

B64Group(data, k) ==
    LET n  == Len(data)
        b1 == data[3 * k - 2]
        b2 == IF 3 * k - 1 <= n THEN data[3 * k - 1] ELSE 0
        b3 == IF 3 * k <= n THEN data[3 * k] ELSE 0
    IN <<B64Alphabet[(b1 \div 4) + 1],
         B64Alphabet[((b1 % 4) * 16 + (b2 \div 16)) + 1],
         IF 3 * k - 1 <= n THEN B64Alphabet[((b2 % 16) * 4 + (b3 \div 64)) + 1] ELSE "=",
         IF 3 * k <= n THEN B64Alphabet[(b3 % 64) + 1] ELSE "=">>

openssl_toBase64(data) ==
    Concat([k \in 1..((Len(data) + 2) \div 3) |-> B64Group(data, k)])

B64WellFormed(text) ==
    /\ Len(text) > 0
    /\ Len(text) % 4 = 0
    /\ \A i \in 1..Len(text) :
          \/ B64Value(text[i]) >= 0
          \/ text[i] = "=" /\ i >= Len(text) - 1 /\ text[Len(text)] = "="

B64Quad(text, k) ==
    LET v(i) == IF text[4 * k - 4 + i] = "=" THEN 0 ELSE B64Value(text[4 * k - 4 + i])
        all  == <<v(1) * 4 + (v(2) \div 16),
                  (v(2) % 16) * 16 + (v(3) \div 4),
                  (v(3) % 4) * 64 + v(4)>>
    IN IF text[4 * k - 1] = "=" THEN SubSeq(all, 1, 1)
       ELSE IF text[4 * k] = "=" THEN SubSeq(all, 1, 2)
       ELSE all

\* BIO_read through the base64 filter; what the library does with text that
\* is not base64 is left to the library: here it reads nothing
openssl_fromBase64(base64) ==
    IF B64WellFormed(base64)
    THEN Returned(Concat([k \in 1..(Len(base64) \div 4) |-> B64Quad(base64, k)]))
    ELSE Returned(<<>>)

(***************************************************************************)
(* createCryptoProvider(): one backend per build, chosen by                *)
(* TCFS_HAS_OPENSSL.  The operations below dispatch on it.                 *)
(***************************************************************************)
Backends == {"openssl", "mock"}

encrypt(b, plaintext, key, iv) ==
    IF b = "mock" THEN mock_encrypt(plaintext, key, iv)
    ELSE openssl_encrypt(plaintext, key, iv)

decrypt(b, encrypted, key, iv) ==
    IF b = "mock" THEN mock_decrypt(encrypted, key, iv)
    ELSE openssl_decrypt(encrypted, key, iv)

toBase64(b, data) ==
    IF b = "mock" THEN mock_toBase64(data) ELSE openssl_toBase64(data)

fromBase64(b, text) ==
    IF b = "mock" THEN mock_fromBase64(text) ELSE openssl_fromBase64(text)

NumKeys == 1
NumIVs == 1

\* generateKey() / generateIV(): 32 / 12 bytes from the provider's random source
GeneratedKeys == {[i \in 1..KeySize |-> (s * i + 5) % 256] : s \in 1..NumKeys}
GeneratedIVs == {[i \in 1..IVSize |-> (s * i + 9) % 256] : s \in 1..NumIVs}

(***************************************************************************)
(* The store and the command line.  One file to lock, named InputName in   *)
(* the working directory; the store holds its capsule as a ciphertext file *)
(* and a metadata file; OutputName is the --output of unlock.  A JSON file *)
(* is kept as the document it parses to.                                   *)
(***************************************************************************)
InputName == "in"
OutputName == "out"
DefaultOwner == "user@example.com"
ToolVersion == "0.1.0"
Plaintexts == {<<>>, <<72, 105>>}
Labels == {"l"}
MaxUnlockSec == 2
UnlockArgs == {MalformedTimestamp} \cup {Timestamp(s) : s \in 0..MaxUnlockSec}
OutputArgs == {"", OutputName}

JsonFile(doc) == File([json |-> TRUE, doc |-> doc])
GarbageFile == File([json |-> FALSE])
Without(doc, key) == [k \in DOMAIN doc \ {key} |-> doc[k]]

\* cmd_lock: the owner is the config's "owner" when config.json parses and
\* holds one that is a string, the default otherwise
load_owner(cfg) ==
    IF cfg.exists /\ cfg.content.json /\ is_string(cfg.content.doc, "owner")
    THEN cfg.content.doc["owner"].v
    ELSE DefaultOwner

\* cmd_lock: the authored policy
author_policy(unlock_at, owner, label, notes) ==
    [DefaultPolicy EXCEPT !.unlock_at = unlock_at, !.owner = owner,
                          !.label = label, !.notes = notes]

\* cmd_lock without the check of validate()'s result
lock_validation_passed_always(validation) == TRUE

\* cmd_lock: if (!validation) throw
lock_validation_passed(validation) == validation.has_value

\* cmd_lock: the metadata document
lock_metadata(b, p, encrypted_data, data_key, t, name) ==
    [policy |-> to_json(p),
     iv |-> JString(toBase64(b, encrypted_data.iv)),
     tag |-> JString(toBase64(b, encrypted_data.tag)),
     data_key_encrypted |-> JString(toBase64(b, data_key)),
     created_at |-> JString(format_rfc3339(t)),
     tool_version |-> JString(ToolVersion),
     original_filename |-> JString(name)]

\* run() without its catch clauses' return 1
exit_status_zero(thrown) == 0

\* TCFSApp::run: 0 when the command returns, 1 when it throws a
\* TCFSException or another std::exception
exit_status(thrown) == IF thrown THEN 1 ELSE 0

(***************************************************************************)
(* What the store may hold when the program starts: nothing, a capsule     *)
(* written for this backend by a writer that records the IV and a grace    *)
(* period, or such a capsule damaged.                                      *)
(***************************************************************************)
StoredKey == [i \in 1..KeySize |-> (3 * i + 1) % 256]
StoredIV == [i \in 1..IVSize |-> (5 * i + 2) % 256]
StoredPlaintext == <<79, 75>>
StoredGraces == {0, 1}
Damages == {"no_meta", "garbage", "no_policy", "bad_unlock_at", "no_tag", "bad_tag", "iv_not_string"}

StoredPolicy(g) ==
    [DefaultPolicy EXCEPT !.unlock_at = from_time_t(MaxUnlockSec), !.owner = "u",
                          !.grace_seconds = g]

StoredMetadata(b, g) ==
    LET enc == encrypt(b, StoredPlaintext, StoredKey, StoredIV) IN
    lock_metadata(b, StoredPolicy(g), [enc EXCEPT !.iv = StoredIV], StoredKey, 0, InputName)

StoredCapsule(b, g) ==
    [ct |-> File(encrypt(b, StoredPlaintext, StoredKey, StoredIV).ciphertext),
     meta |-> JsonFile(StoredMetadata(b, g))]

Damaged(b, kind) ==
    LET c == StoredCapsule(b, 1)
        m == StoredMetadata(b, 1)
        wrong == [i \in 1..TagSize |-> 0]
    IN CASE kind = "no_meta" -> [c EXCEPT !.meta = NoFile]
         [] kind = "garbage" -> [c EXCEPT !.meta = GarbageFile]
         [] kind = "no_policy" -> [c EXCEPT !.meta = JsonFile(Without(m, "policy"))]
         [] kind = "bad_unlock_at" ->
              [c EXCEPT !.meta = JsonFile([m EXCEPT !.policy.unlock_at = JString(MalformedTimestamp)])]
         [] kind = "no_tag" -> [c EXCEPT !.meta = JsonFile(Without(m, "tag"))]
         [] kind = "bad_tag" ->
              [c EXCEPT !.meta = JsonFile([m EXCEPT !.tag = JString(toBase64(b, wrong))])]
         [] kind = "iv_not_string" -> [c EXCEPT !.meta = JsonFile([m EXCEPT !.iv = JUnsigned(0)])]

InitialStores(b) ==
    {[ct |-> NoFile, meta |-> NoFile]}
      \cup {StoredCapsule(b, g) : g \in StoredGraces}
      \cup {Damaged(b, kind) : kind \in Damages}

InitialConfigs == {NoFile, JsonFile([owner |-> JString("")])}

Init ==
    /\ now = 0
    /\ PolicyAtRest
    /\ backend \in Backends
    /\ config \in InitialConfigs
    /\ \E p \in Plaintexts, c \in InitialStores(backend) :
          files = [input |-> File(p), store_ct |-> c.ct, store_meta |-> c.meta, out |-> NoFile]
    /\ sealed = NoSeal
    /\ pc = "idle"
    /\ frame = NoFrame
    /\ last = NoLast
    /\ runs = 0

(***************************************************************************)
(* A command runs in steps, one per reading of the clock; between steps    *)
(* the clock may advance.  frame holds the locals of the running command,  *)
(* last what the command that ended did: how it ended (returned or threw,  *)
(* the exception, the exit status of run) and the values it worked with.   *)
(***************************************************************************)
Throws(f, kind, code, msg, cause) ==
    /\ pc' = "idle"
    /\ frame' = NoFrame
    /\ last' = [outcome |-> "thrown", thrown |-> TRUE, kind |-> kind, code |-> code,
                message |-> msg, cause |-> cause, status |-> exit_status(TRUE)] @@ f

Returns(f, outcome) ==
    /\ pc' = "idle"
    /\ frame' = NoFrame
    /\ last' = [outcome |-> outcome, thrown |-> FALSE, status |-> exit_status(FALSE)] @@ f

Continues(f, step) ==
    /\ pc' = step
    /\ frame' = f
    /\ last' = NoLast

\* cmd_lock through the ciphertext file: the input file, the owner, the
\* authored policy and its validation (a reading of the clock), the input's
\* bytes, generateKey, generateIV, encrypt, the write to the store.  Only
\* the opening of a stream is tested; output.write and output.close are not,
\* so a stream that opened may still fail to take the bytes (ct_written),
\* leaving the created file without them
cmd_lock_begin(unlock_at, label, notes) ==
    /\ pc = "idle"
    /\ runs < MaxRuns
    /\ runs' = runs + 1
    /\ LET run == [cmd |-> "lock", validate_called |-> FALSE, encrypt_called |-> FALSE]
           parsed == parse_rfc3339(unlock_at)
           p == author_policy(parsed.value, load_owner(config), label, notes)
           validation == validate(p, now)
           checked == [policy |-> p, validation |-> validation, validated_at |-> now,
                       validate_called |-> TRUE] @@ run
           Fails(f, code, msg, cause) ==
               Throws(f, "TCFSException", code, msg, cause) /\ UNCHANGED <<files, sealed>>
       IN IF ~files.input.exists
          THEN Fails(run, "FileNotFound", <<"Input file not found: ", InputName>>,
                     "missing_file")
          ELSE IF ~parsed.has_value
          THEN Fails(run, parsed.error, parsed.error_message, "invalid_argument")
          ELSE IF ~lock_validation_passed(validation)
          THEN Fails(checked, validation.error, validation.error_message, "invalid_policy")
          ELSE \E readable \in BOOLEAN, writable \in BOOLEAN, ct_written \in BOOLEAN,
                  data_key \in GeneratedKeys, iv \in GeneratedIVs :
             LET file_data == files.input.content
                 encrypted_data == encrypt(backend, file_data, data_key, iv)
                 f == [encrypt_called |-> TRUE, file_data |-> file_data,
                       data_key |-> data_key, encrypted_data |-> encrypted_data,
                       ct_written |-> ct_written] @@ checked
             IN IF ~readable
                THEN Fails(checked, "FILE_ACCESS_ERROR",
                           <<"Failed to read input file: ", InputName>>, "io")
                ELSE IF ~writable
                THEN Fails(f, "FILE_ACCESS_ERROR",
                           <<"Failed to write encrypted file: ", InputName, ".tcfs">>, "io")
                ELSE /\ ct_written \/ encrypted_data.ciphertext # <<>>
                     /\ files' = [files EXCEPT !.store_ct =
                                      IF ct_written THEN File(encrypted_data.ciphertext)
                                      ELSE File(<<>>)]
                     /\ sealed' = NoSeal
                     /\ Continues(f, "lock_write_meta")
    /\ UNCHANGED <<now, polVars, backend, config>>

\* cmd_lock from the metadata document (stamped with a second reading of
\* the clock) to the end: the metadata file, whose stream is tested when it
\* opens and not after the text is sent to it (meta_written), then
\* fs::remove(input_file, ec), whose failure is only a warning
cmd_lock_write_metadata ==
    /\ pc = "lock_write_meta"
    /\ \E writable \in BOOLEAN, meta_written \in BOOLEAN, removed \in BOOLEAN :
          IF ~writable
          THEN /\ Throws(frame, "TCFSException", "FILE_ACCESS_ERROR",
                         <<"Failed to write metadata file: ", InputName, ".tcfs.meta">>, "io")
               /\ UNCHANGED <<files, sealed>>
          ELSE LET metadata == lock_metadata(backend, frame.policy, frame.encrypted_data,
                                             frame.data_key, now, InputName)
               IN /\ files' = [files EXCEPT !.store_meta = IF meta_written
                                                           THEN JsonFile(metadata)
                                                           ELSE GarbageFile,
                                            !.input = IF removed THEN NoFile ELSE @]
                  /\ sealed' = IF frame.ct_written /\ meta_written
                               THEN [sealed |-> TRUE, plaintext |-> frame.file_data,
                                     policy |-> frame.policy]
                               ELSE NoSeal
                  /\ Returns([input_removed |-> removed, meta_written |-> meta_written]
                                @@ frame, "locked")
    /\ UNCHANGED <<now, polVars, backend, config, runs>>

\* cmd_unlock up to the reload of the persisted policy, which validates it
\* against a reading of the clock
cmd_unlock_begin(output_file) ==
    /\ pc = "idle"
    /\ runs < MaxRuns
    /\ runs' = runs + 1
    /\ LET run == [cmd |-> "unlock", output_file |-> output_file, of_sealed |-> sealed.sealed,
                   reloaded |-> FALSE, checked |-> FALSE, decrypt_called |-> FALSE]
           Fails(f, code, msg, cause) == Throws(f, "TCFSException", code, msg, cause)
       IN IF ~files.store_ct.exists
          THEN Fails(run, "FileNotFound",
                     <<"Encrypted file not found in store: ", InputName>>, "missing_file")
          ELSE IF ~files.store_meta.exists
          THEN Fails(run, "FileNotFound",
                     <<"Metadata file not found: ", InputName, ".tcfs.meta">>, "missing_file")
          ELSE \E readable \in BOOLEAN :
             IF ~readable
             THEN Fails(run, "FILE_ACCESS_ERROR",
                        <<"Failed to read metadata file: ", InputName, ".tcfs.meta">>, "io")
             ELSE IF ~files.store_meta.content.json
             THEN Fails(run, "InvalidMetadata", <<"JSON parsing error: ", "parse_error">>,
                        "invalid_metadata")
             ELSE LET metadata == files.store_meta.content.doc IN
                  IF ~contains(metadata, "policy")
                  THEN Fails(run, "InvalidMetadata", <<"Policy not found in metadata">>,
                             "invalid_metadata")
                  ELSE LET policy_result == from_json(metadata["policy"], now)
                           loaded == [reloaded |-> TRUE, reload_json |-> metadata["policy"],
                                      reload_at |-> now, policy_result |-> policy_result] @@ run
                       IN IF ~policy_result.has_value
                          THEN Fails(loaded, "InvalidMetadata",
                                     <<"Failed to parse policy from metadata">>
                                       \o (IF policy_result.error_message # <<>>
                                           THEN <<": ">> \o policy_result.error_message
                                           ELSE <<>>),
                                     "invalid_metadata")
                          ELSE Continues([metadata |-> metadata,
                                          policy |-> policy_result.value] @@ loaded,
                                         "unlock_check")
    /\ UNCHANGED <<now, polVars, backend, config, files, sealed>>

\* metadata[key].get<std::string>(): nlohmann's type_error for another type
get_string(metadata, key) ==
    IF metadata[key].t = "string" THEN Returned(metadata[key].v)
    ELSE Thrown("std::exception", "type_error",
                <<"type must be string, but is ", metadata[key].t>>)

\* cmd_unlock: one encryption parameter, read and decoded
decode_parameter(b, metadata, key) ==
    LET text == get_string(metadata, key) IN
    IF text.thrown THEN text ELSE fromBase64(b, text.value)

\* cmd_unlock: the file the plaintext goes to
final_output(output_file, metadata) ==
    IF output_file # "" THEN Returned(output_file)
    ELSE IF contains(metadata, "original_filename")
    THEN get_string(metadata, "original_filename")
    ELSE Returned(InputName)

\* cmd_unlock from the time check on: is_unlock_time_reached() reads the
\* clock; too early, the command goes on to report; otherwise the parameters,
\* the ciphertext, decrypt and the output file
cmd_unlock_check ==
    /\ pc = "unlock_check"
    /\ LET reached == is_unlock_time_reached(frame.policy, now)
           passed == [checked |-> TRUE, reached |-> reached, checked_at |-> now] @@ frame
           metadata == frame.metadata
           iv == decode_parameter(backend, metadata, "iv")
           tag == decode_parameter(backend, metadata, "tag")
           data_key == decode_parameter(backend, metadata, "data_key_encrypted")
           enc_data == [ciphertext |-> files.store_ct.content, iv |-> iv.value,
                        tag |-> tag.value]
           decrypted_data == decrypt(backend, enc_data, data_key.value, iv.value)
           called == [decrypt_called |-> TRUE] @@ passed
           target == final_output(frame.output_file, metadata)
           Fails(f, e, cause) ==
               Throws(f, e.kind, e.code, e.message, cause) /\ UNCHANGED files
       IN IF ~reached
          THEN Continues(passed, "unlock_report") /\ UNCHANGED files
          ELSE IF ~contains(metadata, "iv") \/ ~contains(metadata, "tag")
                    \/ ~contains(metadata, "data_key_encrypted")
          THEN Fails(passed, Thrown("TCFSException", "InvalidMetadata",
                                    <<"Missing encryption parameters in metadata">>),
                     "invalid_metadata")
          ELSE IF iv.thrown THEN Fails(passed, iv, "invalid_metadata")
          ELSE IF tag.thrown THEN Fails(passed, tag, "invalid_metadata")
          ELSE IF data_key.thrown THEN Fails(passed, data_key, "invalid_metadata")
          ELSE \E readable \in BOOLEAN, writable \in BOOLEAN :
             IF ~readable
             THEN Fails(passed, Thrown("TCFSException", "FILE_ACCESS_ERROR",
                                       <<"Failed to read encrypted file: ", InputName, ".tcfs">>),
                        "io")
             ELSE IF decrypted_data.thrown THEN Fails(called, decrypted_data, "authentication")
             ELSE IF target.thrown THEN Fails(called, target, "invalid_metadata")
             ELSE IF ~writable
             THEN Fails(called, Thrown("TCFSException", "FILE_ACCESS_ERROR",
                                       <<"Failed to write decrypted file: ", target.value>>),
                        "io")
             ELSE /\ files' = IF target.value = OutputName
                              THEN [files EXCEPT !.out = File(decrypted_data.value)]
                              ELSE [files EXCEPT !.input = File(decrypted_data.value)]
                  /\ Returns([output |-> decrypted_data.value,
                              written_to |-> target.value] @@ called,
                             "unlocked")
    /\ UNCHANGED <<now, polVars, backend, config, sealed, runs>>

\* cmd_unlock, too early: time_remaining() reads the clock again, the
\* remaining seconds are printed and the command returns
cmd_unlock_report ==
    /\ pc = "unlock_report"
    /\ Returns([remaining |-> time_remaining(frame.policy, now), reported_at |-> now] @@ frame,
               "not_yet")
    /\ UNCHANGED <<now, polVars, backend, config, files, sealed, runs>>

\* cmd_status and cmd_list: what is printed for a policy that loaded
policy_lines(unlock_time, remaining, can_unlock) ==
    [kind |-> "policy", unlock_time |-> unlock_time, remaining |-> remaining,
     can_unlock |-> can_unlock]

\* cmd_status and cmd_list: the warning printed instead
warning_line(message) == [kind |-> "warning", message |-> message]

\* cmd_status: the metadata record of the capsule is read, its policy is
\* loaded with Policy::from_json (a reading of the clock) and, when that
\* succeeds, printed with its unlock time, time_remaining() and
\* is_unlock_time_reached() (two later readings); then created_at,
\* original_filename and tool_version are printed
cmd_status ==
    /\ pc = "idle"
    /\ runs < MaxRuns
    /\ runs' = runs + 1
    /\ LET run == [cmd |-> "status", examined |-> FALSE]
           Fails(f, code, msg, cause) ==
               Throws(f, "TCFSException", code, msg, cause) /\ now' = now
       IN IF ~files.store_meta.exists
          THEN Fails(run, "FileNotFound",
                     <<"Metadata file not found: ", InputName, ".meta">>, "missing_file")
          ELSE \E readable \in BOOLEAN :
             IF ~readable
             THEN Fails(run, "FILE_ACCESS_ERROR",
                        <<"Failed to read metadata file: ", InputName, ".tcfs.meta">>, "io")
             ELSE IF ~files.store_meta.content.json
             THEN Fails(run, "InvalidMetadata", <<"JSON parsing error: ", "parse_error">>,
                        "invalid_metadata")
             ELSE LET metadata == files.store_meta.content.doc
                      trailer == {key \in {"created_at", "original_filename", "tool_version"}
                                      \cap DOMAIN metadata : get_string(metadata, key).thrown}
                      Ends(f) ==
                          IF trailer # {}
                          THEN LET e == get_string(metadata, CHOOSE key \in trailer : TRUE)
                               IN Throws(f, e.kind, e.code, e.message, "invalid_metadata")
                          ELSE Returns(f, "reported")
                  IN IF ~contains(metadata, "policy")
                     THEN /\ Ends([report |-> warning_line(<<"No policy found in metadata">>)]
                                    @@ run)
                          /\ now' = now
                     ELSE LET policy_result == from_json(metadata["policy"], now)
                              loaded == [examined |-> TRUE, policy_json |-> metadata["policy"],
                                         loaded_at |-> now] @@ run
                          IN IF ~policy_result.has_value
                             THEN /\ Ends([report |-> warning_line(
                                             <<"Failed to parse policy: ">>
                                               \o policy_result.error_message)] @@ loaded)
                                  /\ now' = now
                             ELSE \E t_remaining \in now..MaxNow :
                                  \E t_reached \in t_remaining..MaxNow :
                                     LET p == policy_result.value IN
                                     /\ Ends([report |-> policy_lines(
                                                format_rfc3339(p.unlock_at),
                                                time_remaining(p, t_remaining),
                                                is_unlock_time_reached(p, t_reached))]
                                               @@ loaded)
                                     /\ now' = t_reached
    /\ UNCHANGED <<polVars, backend, config, files, sealed>>

\* cmd_list: for the capsule in the store, the metadata record is read and
\* its policy loaded with Policy::from_json (a reading of the clock); when
\* that succeeds the unlock time and is_unlock_time_reached() are printed
\* and, after a second is_unlock_time_reached(), time_remaining() if the
\* time is not reached (remaining is -1 when it is not printed).  Every
\* exception is caught and printed as a warning.
cmd_list ==
    /\ pc = "idle"
    /\ runs < MaxRuns
    /\ runs' = runs + 1
    /\ LET run == [cmd |-> "list", examined |-> FALSE]
           Warns(f, message) ==
               Returns([report |-> warning_line(message)] @@ f, "listed") /\ now' = now
       IN IF ~files.store_ct.exists
          THEN Returns(run, "listed_nothing") /\ now' = now
          ELSE IF ~files.store_meta.exists
          THEN Warns(run, <<"Metadata file not found">>)
          ELSE IF ~files.store_meta.content.json
          THEN Warns(run, <<"Could not read metadata: ", "parse_error">>)
          ELSE LET metadata == files.store_meta.content.doc
                   header == {key \in {"original_filename", "created_at"}
                                \cap DOMAIN metadata : get_string(metadata, key).thrown}
               IN IF header # {}
                  THEN Warns(run, <<"Could not read metadata: ">>
                                    \o get_string(metadata,
                                                  CHOOSE key \in header : TRUE).message)
                  ELSE IF ~contains(metadata, "policy")
                  THEN Warns(run, <<"No policy found in metadata">>)
                  ELSE LET policy_result == from_json(metadata["policy"], now)
                           loaded == [examined |-> TRUE, policy_json |-> metadata["policy"],
                                      loaded_at |-> now] @@ run
                       IN IF ~policy_result.has_value
                          THEN Warns(loaded, <<"Failed to parse policy: ">>
                                               \o policy_result.error_message)
                          ELSE \E t_printed \in now..MaxNow :
                               \E t_reached \in t_printed..MaxNow :
                               \E t_remaining \in t_reached..MaxNow :
                                  LET p == policy_result.value
                                      reached == is_unlock_time_reached(p, t_reached)
                                  IN /\ Returns([report |-> policy_lines(
                                                   format_rfc3339(p.unlock_at),
                                                   IF reached THEN -1
                                                   ELSE time_remaining(p, t_remaining),
                                                   is_unlock_time_reached(p, t_printed))]
                                                  @@ loaded,
                                                "listed")
                                     /\ now' = IF reached THEN t_reached ELSE t_remaining
    /\ UNCHANGED <<polVars, backend, config, files, sealed>>

Next ==
    \/ Tick
    \/ \E unlock_at \in UnlockArgs, label \in Labels : cmd_lock_begin(unlock_at, label, "")
    \/ cmd_lock_write_metadata
    \/ \E output_file \in OutputArgs : cmd_unlock_begin(output_file)
    \/ cmd_unlock_check
    \/ cmd_unlock_report
    \/ cmd_status
    \/ cmd_list

Spec == Init /\ [][Next]_vars

(***************************************************************************)
(* Policy claims, checked under SpecPolicy.                                *)
(***************************************************************************)

\* C5: for every policy and every clock instant, is_unlock_time_reached()
\* returns true exactly when now >= unlock_at - grace_seconds.
C5_ReachedIffEffectiveInstantPassed ==
    ret.op = "is_unlock_time_reached" =>
        (ret.val <=> now >= EffectiveInstant(policy))

\* C6: for a fixed policy and a non-decreasing clock, is_unlock_time_reached()
\* is false strictly before unlock_at - grace_seconds, true at and after it,
\* and once it has returned true it never returns false again.
C6_FalseBeforeTrueAfterAndLatched ==
    ret.op = "is_unlock_time_reached" =>
        /\ now < EffectiveInstant(policy) => ret.val = FALSE
        /\ now >= EffectiveInstant(policy) => ret.val = TRUE
        /\ ret.before => ret.val = TRUE

\* C7: raising grace_seconds (all else equal, same instant) never turns a
\* reached policy into one that is not reached, over the whole range of
\* grace_seconds.
C7_LargerGraceNeverLater ==
    [][(/\ now' = now
        /\ policy'.grace_seconds >= policy.grace_seconds
        /\ policy' = [policy EXCEPT !.grace_seconds = policy'.grace_seconds]
        /\ is_unlock_time_reached(policy, now))
       => is_unlock_time_reached(policy', now')]_vars

ValidateMustFail(p, t) == p.owner = "" \/ p.unlock_at = 0 \/ p.unlock_at <= t

\* C8: validate() returns an InvalidPolicy error when owner is empty, when
\* unlock_at is the default (epoch) time point or when unlock_at <= now, and
\* success in every other case; it never modifies the policy.
C8_ValidateContract ==
    /\ [](ret.op = "validate" =>
            IF ValidateMustFail(policy, now)
            THEN ~ret.val.has_value /\ ret.val.error = "InvalidPolicy"
            ELSE ret.val.has_value)
    /\ [][ret'.op = "validate" => policy' = policy]_vars

C8_Witness ==
    /\ ret.op = "validate"
    /\ ~ret.val.has_value
    /\ policy.owner # ""
    /\ policy.unlock_at = now
    /\ now > 0

\* C9: time_remaining() is never negative: 0 when now >= unlock_at -
\* grace_seconds, otherwise the gap (unlock_at - grace_seconds) - now.
C9_RemainingIsGapOrZero ==
    ret.op = "time_remaining" =>
        /\ ret.val >= 0
        /\ now >= EffectiveInstant(policy) => ret.val = 0
        /\ now < EffectiveInstant(policy) =>
               ret.val = duration_cast_seconds(EffectiveInstant(policy) - now)


(***************************************************************************)
(* Command-line claims, checked under Spec.                                *)
(***************************************************************************)

\* C1: cmd_unlock never invokes decrypt and never writes a plaintext output
\* file at a clock instant earlier than unlock_at - grace_seconds of the
\* capsule's persisted policy; decrypt is reached only after
\* is_unlock_time_reached() has returned true for that policy.
C1_NoDecryptBeforeEffectiveInstant ==
    /\ []((last.cmd = "unlock" /\ (last.decrypt_called \/ last.outcome = "unlocked")) =>
            /\ last.checked
            /\ last.reached
            /\ last.checked_at >= EffectiveInstant(last.policy))
    /\ [][(pc = "unlock_check" /\ (files' # files \/ (last'.cmd = "unlock" /\ last'.decrypt_called))) =>
            now >= EffectiveInstant(frame.policy)]_vars
    /\ [][(files' # files /\ pc # "unlock_check") =>
            (pc' = "lock_write_meta" \/ pc = "lock_write_meta")]_vars

\* an unlock inside the grace window: before unlock_at, at or after unlock_at - grace
C1_Witness ==
    /\ last.cmd = "unlock"
    /\ last.outcome = "unlocked"
    /\ last.decrypt_called
    /\ last.policy.grace_seconds > 0
    /\ last.checked_at < last.policy.unlock_at
    /\ files.out = File(last.output)

\* C2: cmd_lock calls generateKey, generateIV and encrypt and writes store
\* files only after validate() has succeeded for the authored policy; when
\* validate() fails the flow ends with that error, nothing is encrypted, no
\* file is written to the store and the input file is not deleted.
C2_EncryptOnlyAfterValidate ==
    /\ [](pc = "lock_write_meta" =>
            /\ frame.validate_called
            /\ ~ValidateMustFail(frame.policy, frame.validated_at))
    /\ []((last.cmd = "lock" /\ last.encrypt_called) =>
            /\ last.validate_called
            /\ ~ValidateMustFail(last.policy, last.validated_at))
    /\ [][(pc = "idle" /\ last'.cmd = "lock" /\ last'.validate_called
             /\ ValidateMustFail(last'.policy, last'.validated_at)) =>
            /\ last'.thrown
            /\ last'.kind = "TCFSException"
            /\ last'.code = last'.validation.error
            /\ last'.message = last'.validation.error_message
            /\ ~last'.encrypt_called
            /\ files' = files]_vars

\* a lock refused by validate() while the store still holds what an earlier
\* lock sealed, the input file still in place
C2_Witness ==
    /\ last.cmd = "lock"
    /\ last.thrown
    /\ last.code = "InvalidPolicy"
    /\ last.message = <<"Unlock time must be in the future">>
    /\ ~last.encrypt_called
    /\ files.input.exists
    /\ sealed.sealed

\* the persisted policy has a non-empty owner and a well-formed unlock_at
WellFormedPersisted(json) ==
    /\ is_string(json, "owner")
    /\ json["owner"].v # ""
    /\ is_string(json, "unlock_at")
    /\ json["unlock_at"].v.matches
    /\ json["unlock_at"].v.in_range
    /\ json["unlock_at"].v.sec > 0

\* C3: the Policy::from_json call made by cmd_unlock succeeds for a persisted
\* policy with a non-empty owner and a well-formed unlock_at, even when
\* unlock_at <= now.
C3_ReloadSucceedsPastUnlockTime ==
    (last.cmd = "unlock" /\ last.reloaded /\ WellFormedPersisted(last.reload_json)) =>
        last.policy_result.has_value

\* C4: for a file sealed by cmd_lock, cmd_unlock run at any instant >=
\* unlock_at - grace_seconds, given the ciphertext file and the metadata
\* record in the store, writes an output file whose bytes equal the original
\* file's bytes, for every backend (file-system failures aside).
C4_UnlockRestoresOriginal ==
    (/\ last.cmd = "unlock"
     /\ last.of_sealed
     /\ sealed.sealed
     /\ last.reloaded
     /\ last.reload_at >= EffectiveInstant(sealed.policy)
     /\ ~(last.thrown /\ last.cause = "io")) =>
        /\ last.outcome = "unlocked"
        /\ last.output = sealed.plaintext

TooEarlyEndsNormally ==
    (last.cmd = "unlock" /\ last.checked
       /\ last.checked_at < EffectiveInstant(last.policy)) =>
        /\ last.outcome = "not_yet"
        /\ ~last.thrown
        /\ last.status = 0
        /\ last.remaining = time_remaining(last.policy, last.reported_at)

GenuineFailures == {"missing_file", "invalid_metadata", "authentication"}

PersistedUnlockAt(json) == from_time_t(json["unlock_at"].v.sec)

\* C11: cmd_status and cmd_list, run on a stored capsule whose unlock time
\* has already passed, load its policy and report its unlock time and that
\* it can be unlocked, instead of reporting that the policy failed to parse.
C11_StatusAndListReportPassedCapsule ==
    (/\ last.cmd \in {"status", "list"}
     /\ last.examined
     /\ WellFormedPersisted(last.policy_json)
     /\ PersistedUnlockAt(last.policy_json) <= last.loaded_at)
        => /\ ~last.thrown
           /\ last.report.kind = "policy"
           /\ last.report.unlock_time = last.policy_json["unlock_at"].v
           /\ last.report.can_unlock

(***************************************************************************)
(* Serialization of one Policy object: the setters, toJSON followed by     *)
(* from_json, fromJSON on a document, set_unlock_time on a timestamp text. *)
(* The text of a JSON document is kept as the document nlohmann parses it  *)
(* to (dump and parse are inverse on strings and unsigned numbers), or as  *)
(* text that does not parse.                                               *)
(***************************************************************************)
MaxJsonTime == 5
MaxJsonNow == 2
JsonTimes == (-2)..MaxJsonTime
JsonGraces == {0, 1}
KDFTypes == {"PBKDF2", "Argon2id"}
TimestampArgs ==
    {MalformedTimestamp, OutOfRangeTimestamp} \cup {Timestamp(n) : n \in (-1)..(MaxUnlockSec + 2)}

OptionalKeys == {"owner", "label", "notes", "grace_seconds", "algorithm", "kdf"}
Omit(doc, keys) == [k \in DOMAIN doc \ keys |-> doc[k]]

\* a document as to_json writes it, for a policy that is not the default in
\* any field
FullDocument ==
    to_json([unlock_at |-> from_time_t(MaxUnlockSec + 2), owner |-> "u", label |-> "l",
             notes |-> "n", grace_seconds |-> 1, algorithm |-> "AES_256_GCM",
             kdf |-> "Argon2id"])

UnlockAtTexts ==
    {Timestamp(MaxUnlockSec + 2), Timestamp(1), MalformedTimestamp, OutOfRangeTimestamp}

Documents ==
    {Omit(FullDocument, omitted) : omitted \in SUBSET OptionalKeys}
      \cup {[FullDocument EXCEPT !.unlock_at = JString(text)] : text \in UnlockAtTexts}
      \cup {Omit([FullDocument EXCEPT !.unlock_at = JString(MalformedTimestamp)], {"owner"}),
            Omit(FullDocument, {"unlock_at"}),
            [FullDocument EXCEPT !.unlock_at = JUnsigned(MaxUnlockSec + 2)],
            [FullDocument EXCEPT !.owner = JUnsigned(0)],
            [FullDocument EXCEPT !.kdf = JString("scrypt")],
            [FullDocument EXCEPT !.owner = JString("")]}

JsonTexts == {[json |-> TRUE, doc |-> doc] : doc \in Documents} \cup {[json |-> FALSE]}

InitJson ==
    /\ now \in 1..MaxJsonNow
    /\ PolicyAtRest
    /\ CliAtRest

set_kdf(kdf) ==
    /\ policy' = [policy EXCEPT !.kdf = kdf]
    /\ ret' = NoRet
    /\ UNCHANGED <<now, reachedOnce, cliVars>>

\* Policy::set_unlock_time(const std::string&)
set_unlock_time(rfc3339_time) ==
    /\ LET result == parse_rfc3339(rfc3339_time)
           call == [op |-> "set_unlock_time", arg |-> rfc3339_time]
       IN IF ~result.has_value
          THEN /\ ret' = Thrown("TCFSException", result.error, result.error_message) @@ call
               /\ policy' = policy
          ELSE /\ policy' = [policy EXCEPT !.unlock_at = result.value]
               /\ ret' = [thrown |-> FALSE] @@ call
    /\ UNCHANGED <<now, reachedOnce, cliVars>>

\* toJSON() of the policy, handed to Policy::from_json as
\* PolicyTest.JSONSerialization does
toJSON_from_json ==
    /\ ret' = [op |-> "round_trip", at |-> now, result |-> from_json(to_json(policy), now)]
    /\ UNCHANGED <<now, policy, reachedOnce, cliVars>>

\* Policy::fromJSON(json_str): nlohmann::json::parse, from_json, and the
\* assignment to *this or the TCFSException
fromJSON(json_str) ==
    /\ LET call == [op |-> "fromJSON", json_str |-> json_str, at |-> now] IN
       IF ~json_str.json
       THEN /\ ret' = Thrown("std::exception", "parse_error", <<"parse_error">>) @@ call
            /\ policy' = policy
       ELSE LET result == from_json(json_str.doc, now) IN
            IF result.has_value
            THEN /\ policy' = result.value
                 /\ ret' = [thrown |-> FALSE, result |-> result] @@ call
            ELSE /\ policy' = policy
                 /\ ret' = Thrown("TCFSException", result.error, result.error_message)
                             @@ [result |-> result] @@ call
    /\ UNCHANGED <<now, reachedOnce, cliVars>>

NextJson ==
    \/ \E t \in JsonTimes : set_unlock_time_point(t)
    \/ \E o \in Owners : set_owner(o)
    \/ \E g \in JsonGraces : set_grace_seconds(g)
    \/ \E kdf \in KDFTypes : set_kdf(kdf)
    \/ \E rfc3339_time \in TimestampArgs : set_unlock_time(rfc3339_time)
    \/ toJSON_from_json
    \/ \E json_str \in JsonTexts : fromJSON(json_str)

SpecJson == InitJson /\ [][NextJson]_vars

\* a time point with its sub-second part dropped, as to_time_t drops it
truncated_to_seconds(t) == from_time_t(to_time_t(t))

\* C12: for every policy p for which validate() succeeds,
\* from_json(to_json(p)) succeeds and yields a policy equal to p in owner,
\* label, notes, grace_seconds, algorithm and kdf, and whose unlock_at
\* equals p's unlock_at truncated to whole seconds.
C12_RoundTripOfEveryValidPolicy ==
    (ret.op = "round_trip" /\ validate(policy, ret.at).has_value) =>
        /\ ret.result.has_value
        /\ ret.result.value = [policy EXCEPT !.unlock_at = truncated_to_seconds(policy.unlock_at)]

\* C12, amended: the same for every policy p that validate() still accepts
\* with its unlock_at truncated to whole seconds; and for a policy that
\* validate() accepts only untruncated, from_json(to_json(p)) fails with
\* validate()'s error for the truncated policy.
C12_RoundTripOfPolicyValidWhenTruncated ==
    ret.op = "round_trip" =>
        LET truncated == [policy EXCEPT !.unlock_at = truncated_to_seconds(policy.unlock_at)]
            validation == validate(truncated, ret.at)
        IN /\ validation.has_value => ret.result = ResultOk(truncated)
           /\ (validate(policy, ret.at).has_value /\ ~validation.has_value) =>
                 ret.result = ResultErr(validation.error, validation.error_message)

C12_Witness ==
    /\ ret.op = "round_trip"
    /\ ret.result.has_value
    /\ policy.unlock_at # ret.result.value.unlock_at
    /\ policy.kdf = "Argon2id"
    /\ policy.grace_seconds > 0
    /\ policy.label # ""

\* the defaults the specification names for the optional keys
StatedDefaults ==
    [owner |-> "", label |-> "", notes |-> "", grace_seconds |-> 0,
     algorithm |-> "AES_256_GCM", kdf |-> "PBKDF2"]

\* the document's unlock_at is a timestamp text that parses to an instant
\* after t
ValidFutureUnlockAt(doc, t) ==
    /\ is_string(doc, "unlock_at")
    /\ parse_rfc3339(doc["unlock_at"].v).has_value
    /\ parse_rfc3339(doc["unlock_at"].v).value > t

\* the optional keys the document carries have the values to_json wrote
RestAsWritten(doc) == \A key \in OptionalKeys \cap DOMAIN doc : doc[key] = FullDocument[key]

\* the policy the document denotes: the written values, the stated defaults
\* for the omitted keys
DenotedPolicy(doc) ==
    LET written == from_json_fields(FullDocument, parse_rfc3339(doc["unlock_at"].v).value)
    IN [key \in DOMAIN written |->
          IF key \in OptionalKeys \ DOMAIN doc THEN StatedDefaults[key] ELSE written[key]]

\* C13: Policy::from_json fails with InvalidPolicy when the unlock_at key is
\* missing or its value is not a string; every other key is optional: a
\* document with a valid future unlock_at that omits any subset of owner,
\* label, notes, grace_seconds, algorithm, kdf is deserialized successfully
\* with the omitted fields at their defaults.
C13_EveryOtherKeyOptional ==
    (ret.op = "fromJSON" /\ ret.json_str.json) =>
        LET doc == ret.json_str.doc IN
        /\ ~is_string(doc, "unlock_at") =>
              (~ret.result.has_value /\ ret.result.error = "InvalidPolicy")
        /\ (ValidFutureUnlockAt(doc, ret.at) /\ RestAsWritten(doc)) =>
              ret.result = ResultOk(DenotedPolicy(doc))

\* C13, amended: owner is not optional.  A document with a valid future
\* unlock_at and a non-empty owner that omits any subset of label, notes,
\* grace_seconds, algorithm, kdf is deserialized with the omitted fields at
\* their defaults; one that omits owner fails with InvalidPolicy "Owner
\* cannot be empty".
C13_EveryKeyButOwnerOptional ==
    (ret.op = "fromJSON" /\ ret.json_str.json) =>
        LET doc == ret.json_str.doc IN
        /\ ~is_string(doc, "unlock_at") =>
              ret.result = ResultErr("InvalidPolicy", <<"Missing or invalid unlock_at field">>)
        /\ (ValidFutureUnlockAt(doc, ret.at) /\ RestAsWritten(doc)) =>
              IF contains(doc, "owner")
              THEN ret.result = ResultOk(DenotedPolicy(doc))
              ELSE ret.result = ResultErr("InvalidPolicy", <<"Owner cannot be empty">>)

C13_Witness ==
    /\ ret.op = "fromJSON"
    /\ ret.json_str.json
    /\ DOMAIN ret.json_str.doc = {"unlock_at", "owner"}
    /\ ret.result.has_value
    /\ policy = ret.result.value
    /\ policy.kdf = "PBKDF2"

\* C16: Policy::set_unlock_time(string) given a malformed or out-of-range
\* timestamp throws a TCFSException immediately and leaves the policy's
\* unlock_at and all other fields unchanged; given a well-formed timestamp
\* it sets unlock_at to the parsed instant and changes no other field.
C16_SetUnlockTimeThrowsOrSets ==
    [][ret'.op = "set_unlock_time" =>
          LET text == ret'.arg IN
          IF ~text.matches \/ ~text.in_range
          THEN /\ ret'.thrown
               /\ ret'.kind = "TCFSException"
               /\ policy' = policy
          ELSE /\ ~ret'.thrown
               /\ policy' = [policy EXCEPT !.unlock_at = from_time_t(text.sec)]]_vars

\* what the failing step inside Policy::from_json reported, for a document
\* whose unlock_at is a string: the parse_rfc3339 error, or else the
\* validate() error of the policy read from the document
FirstFailure(doc, t) ==
    LET parsed == parse_rfc3339(doc["unlock_at"].v) IN
    IF ~parsed.has_value THEN parsed
    ELSE validate(from_json_fields(doc, parsed.value), t)

\* C19: a chain of fallible Policy operations short-circuits on the first
\* error and propagates it unchanged: the error returned by
\* Policy::from_json (and thrown by set_unlock_time(string) and fromJSON)
\* carries the same error kind and message as the first failing inner step,
\* the parse_rfc3339 error (InvalidTimeFormat) when unlock_at is malformed
\* and the validate() error when validation fails.
C19_FirstErrorPropagatedUnchanged ==
    /\ (ret.op = "set_unlock_time" /\ ret.thrown) =>
          LET parsed == parse_rfc3339(ret.arg) IN
          ret.code = parsed.error /\ ret.message = parsed.error_message
    /\ (ret.op = "fromJSON" /\ ret.json_str.json /\ is_string(ret.json_str.doc, "unlock_at")) =>
          LET first == FirstFailure(ret.json_str.doc, ret.at) IN
          ~first.has_value =>
             /\ ret.result = ResultErr(first.error, first.error_message)
             /\ ret.thrown
             /\ ret.code = first.error
             /\ ret.message = first.error_message

(***************************************************************************)
(* time_utils on the characters of a timestamp, with the calendar of       *)
(* timegm and gmtime.  A text is a sequence of characters.  Seconds since  *)
(* the epoch are at their true scale; for the years of CalendarYears their *)
(* tick count is far from the ends of TimePoint::rep, so from_time_t is    *)
(* the plain product here.  The record that parse_rfc3339 above takes is   *)
(* what this scan yields: matches is regex_match, in_range the range       *)
(* check, sec the value of timegm.                                         *)
(***************************************************************************)
Digits == <<"0", "1", "2", "3", "4", "5", "6", "7", "8", "9">>
IsDigit(c) == \E i \in 1..10 : Digits[i] = c
DigitValue(c) == (CHOOSE i \in 1..10 : Digits[i] = c) - 1

\* std::regex_match with (\d{4})-(\d{2})-(\d{2})T(\d{2}):(\d{2}):(\d{2})Z
regex_match(timestamp) ==
    /\ Len(timestamp) = 20
    /\ \A i \in {1, 2, 3, 4, 6, 7, 9, 10, 12, 13, 15, 16, 18, 19} : IsDigit(timestamp[i])
    /\ timestamp[5] = "-" /\ timestamp[8] = "-" /\ timestamp[11] = "T"
    /\ timestamp[14] = ":" /\ timestamp[17] = ":" /\ timestamp[20] = "Z"

\* std::stoi on a run of digits
RECURSIVE stoi(_)
stoi(str) ==
    IF str = <<>> THEN 0
    ELSE stoi(SubSeq(str, 1, Len(str) - 1)) * 10 + DigitValue(str[Len(str)])

\* the six fields of a matching text, as parse_rfc3339 reads them
fields(timestamp) ==
    [year |-> stoi(SubSeq(timestamp, 1, 4)), month |-> stoi(SubSeq(timestamp, 6, 7)),
     day |-> stoi(SubSeq(timestamp, 9, 10)), hour |-> stoi(SubSeq(timestamp, 12, 13)),
     minute |-> stoi(SubSeq(timestamp, 15, 16)), second |-> stoi(SubSeq(timestamp, 18, 19))]

\* parse_rfc3339's "Basic validation"
fields_in_range(f) ==
    ~(f.month < 1 \/ f.month > 12 \/ f.day < 1 \/ f.day > 31 \/ f.hour < 0 \/ f.hour > 23
        \/ f.minute < 0 \/ f.minute > 59 \/ f.second < 0 \/ f.second > 59)

\* days from 1970-01-01 to the given day of the proleptic Gregorian
\* calendar; a day past the end of its month counts on into the next
days_from_civil(year, month, day) ==
    LET y == IF month <= 2 THEN year - 1 ELSE year
        era == y \div 400
        yoe == y - era * 400
        mp == IF month > 2 THEN month - 3 ELSE month + 9
        doy == (153 * mp + 2) \div 5 + day - 1
        doe == yoe * 365 + yoe \div 4 - yoe \div 100 + doy
    IN era * 146097 + doe - 719468

\* timegm: the broken-down UTC time, normalised, as seconds since the epoch
timegm(tm) ==
    days_from_civil(tm.tm_year + 1900, tm.tm_mon + 1, tm.tm_mday) * 86400
      + tm.tm_hour * 3600 + tm.tm_min * 60 + tm.tm_sec

\* gmtime: seconds since the epoch as broken-down UTC time
gmtime(time_t_val) ==
    LET days == time_t_val \div 86400
        rem == time_t_val % 86400
        z == days + 719468
        era == z \div 146097
        doe == z - era * 146097
        yoe == (doe - doe \div 1460 + doe \div 36524 - doe \div 146096) \div 365
        doy == doe - (365 * yoe + yoe \div 4 - yoe \div 100)
        mp == (5 * doy + 2) \div 153
        month == IF mp < 10 THEN mp + 3 ELSE mp - 9
        year == yoe + era * 400 + (IF month <= 2 THEN 1 ELSE 0)
    IN [tm_year |-> year - 1900, tm_mon |-> month - 1,
        tm_mday |-> doy - (153 * mp + 2) \div 5 + 1,
        tm_hour |-> rem \div 3600, tm_min |-> (rem % 3600) \div 60, tm_sec |-> rem % 60]

\* %Y: the year in decimal, not padded
RECURSIVE Decimal(_)
Decimal(n) == IF n < 10 THEN <<Digits[n + 1]>> ELSE Decimal(n \div 10) \o <<Digits[(n % 10) + 1]>>

\* %m %d %H %M %S: two digits
TwoDigits(n) == <<Digits[(n \div 10) + 1], Digits[(n % 10) + 1]>>

\* std::put_time(tm, "%Y-%m-%dT%H:%M:%SZ")
put_time(tm) ==
    Decimal(tm.tm_year + 1900) \o <<"-">> \o TwoDigits(tm.tm_mon + 1) \o <<"-">>
      \o TwoDigits(tm.tm_mday) \o <<"T">> \o TwoDigits(tm.tm_hour) \o <<":">>
      \o TwoDigits(tm.tm_min) \o <<":">> \o TwoDigits(tm.tm_sec) \o <<"Z">>

\* std::chrono::system_clock::from_time_t, away from the ends of TimePoint::rep
system_clock_from_time_t(time_t_val) == time_t_val * TicksPerSec

\* time_utils::parse_rfc3339 on the characters of the timestamp
time_utils_parse_rfc3339(timestamp) ==
    IF ~regex_match(timestamp)
    THEN ResultErr("InvalidTimeFormat", <<"Invalid RFC3339 format">>)
    ELSE LET f == fields(timestamp)
             tm == [tm_year |-> f.year - 1900, tm_mon |-> f.month - 1, tm_mday |-> f.day,
                    tm_hour |-> f.hour, tm_min |-> f.minute, tm_sec |-> f.second]
             time_t_val == timegm(tm)
         IN IF ~fields_in_range(f)
            THEN ResultErr("InvalidTimeFormat", <<"Invalid date/time values">>)
            ELSE IF time_t_val = -1
            THEN ResultErr("InvalidTimeFormat", <<"Failed to convert to time_t">>)
            ELSE ResultOk(system_clock_from_time_t(time_t_val))

\* time_utils::format_rfc3339 to the characters it writes
time_utils_format_rfc3339(time) == put_time(gmtime(to_time_t(time)))

CalendarYears == {1969, 1970, 1972}
CalendarMonths == {0, 1, 2, 4, 12, 13}
CalendarDays == {0, 1, 28, 29, 30, 31, 32}
CalendarHours == {0, 23, 24}
CalendarMinutes == {0, 59, 60}
CalendarSeconds == {0, 58, 59, 60}

\* the text with the given fields, each written with its digits
TimestampText(year, month, day, hour, minute, second) ==
    Decimal(year) \o <<"-">> \o TwoDigits(month) \o <<"-">> \o TwoDigits(day) \o <<"T">>
      \o TwoDigits(hour) \o <<":">> \o TwoDigits(minute) \o <<":">> \o TwoDigits(second)
      \o <<"Z">>

\* texts that are not of the form YYYY-MM-DDTHH:MM:SSZ
MalformedTexts ==
    LET good == TimestampText(1970, 1, 1, 0, 0, 0) IN
    {<<>>,
     SubSeq(good, 1, 19),
     good \o <<"Z">>,
     [good EXCEPT ![11] = " "],
     [good EXCEPT ![20] = "z"],
     [good EXCEPT ![1] = "x"],
     SubSeq(good, 2, 20),
     SubSeq(good, 1, 10)}

TimestampTexts ==
    {TimestampText(year, month, day, hour, minute, second) :
        year \in CalendarYears, month \in CalendarMonths, day \in CalendarDays,
        hour \in CalendarHours, minute \in CalendarMinutes, second \in CalendarSeconds}
      \cup MalformedTexts

\* instants around the epoch and around a month's end, with sub-second parts
MaxInstant == 5
Instants ==
    (-MaxInstant)..MaxInstant
      \cup {timegm(gmtime(5270400)) * TicksPerSec + sub : sub \in 0..(TicksPerSec - 1)}

InitTime ==
    /\ now = 0
    /\ policy = DefaultPolicy
    /\ reachedOnce = FALSE
    /\ CliAtRest
    /\ \/ \E timestamp \in TimestampTexts : ret = [op |-> "text", timestamp |-> timestamp]
       \/ \E time \in Instants : ret = [op |-> "instant", time |-> time]

call_parse_rfc3339 ==
    /\ ret.op = "text"
    /\ ret' = [op |-> "parse_rfc3339", timestamp |-> ret.timestamp,
               result |-> time_utils_parse_rfc3339(ret.timestamp)]
    /\ UNCHANGED <<now, policy, reachedOnce, cliVars>>

\* format_rfc3339 of the instant parse_rfc3339 returned
call_format_rfc3339_of_parsed ==
    /\ ret.op = "parse_rfc3339"
    /\ ret.result.has_value
    /\ ret' = [op |-> "format_of_parsed", timestamp |-> ret.timestamp,
               formatted |-> time_utils_format_rfc3339(ret.result.value)]
    /\ UNCHANGED <<now, policy, reachedOnce, cliVars>>

call_format_rfc3339 ==
    /\ ret.op = "instant"
    /\ ret' = [op |-> "format_rfc3339", time |-> ret.time,
               formatted |-> time_utils_format_rfc3339(ret.time)]
    /\ UNCHANGED <<now, policy, reachedOnce, cliVars>>

NextTime ==
    \/ call_parse_rfc3339
    \/ call_format_rfc3339_of_parsed
    \/ call_format_rfc3339

SpecTime == InitTime /\ [][NextTime]_vars

\* C14: parse_rfc3339 returns InvalidTimeFormat for exactly the strings
\* that do not match YYYY-MM-DDTHH:MM:SSZ or have a field out of range
\* (month 1-12, day 1-31, hour 0-23, minute and second 0-59); every string
\* matching the grammar with in-range fields is accepted and yields a time
\* point.
C14_RejectsExactlyMalformedOrOutOfRange ==
    ret.op = "parse_rfc3339" =>
        LET wellFormed == regex_match(ret.timestamp) /\ fields_in_range(fields(ret.timestamp))
        IN /\ ret.result.has_value <=> wellFormed
           /\ ~ret.result.has_value => ret.result.error = "InvalidTimeFormat"

\* a time point with its sub-second part cut off, toward the epoch
TruncatedInstant(time) == duration_cast_seconds(time) * TicksPerSec

\* C15: for every string s accepted by parse_rfc3339,
\* format_rfc3339(parse_rfc3339(s)) equals s; and for every time point t,
\* format_rfc3339(t) equals the formatting of t truncated (not rounded) to
\* whole seconds.
C15_FormatInvertsParse ==
    /\ ret.op = "format_of_parsed" => ret.formatted = ret.timestamp
    /\ ret.op = "format_rfc3339" =>
          ret.formatted = time_utils_format_rfc3339(TruncatedInstant(ret.time))

(***************************************************************************)
(* Result<T> and Result<void> objects.  frame holds the objects in scope:  *)
(* two Result<T> locals and one Result<void>.  value_ is the union's       *)
(* storage for T: live says whether a T object lives in it, v what it      *)
(* holds.  T's copy constructor may throw; its move constructor leaves the *)
(* source holding MovedFrom.  double_destroyed records a destructor call   *)
(* on storage that holds no live T, leaked a live T whose storage was      *)
(* overwritten or given up.                                                *)
(***************************************************************************)
ResultNames == {"a", "b"}
TValues == {1, 2}
MovedFrom == 0
\* ErrorCode values a caller can pass to the error constructors; SUCCESS is
\* an enumerator like the others
ErrorCodes == {"SUCCESS", "CRYPTO_ERROR", "FileNotFound"}
ErrorMessages == {"", "m"}
OutOfScope == [scope |-> FALSE]
NoValue == [live |-> FALSE, v |-> MovedFrom]
Indeterminate == "indeterminate"

\* explicit Result(T&& value) / Result(const T& value)
Result_success(value) ==
    [scope |-> TRUE, has_value_ |-> TRUE, value_ |-> [live |-> TRUE, v |-> value],
     error_ |-> Indeterminate, error_message_ |-> ""]

\* Result(ErrorCode error) / Result(ErrorCode error, const std::string& message)
Result_error(error, message) ==
    [scope |-> TRUE, has_value_ |-> FALSE, value_ |-> NoValue,
     error_ |-> error, error_message_ |-> message]

\* Result<void>() and its error constructors
ResultVoid_success == [scope |-> TRUE, has_value_ |-> TRUE, error_ |-> Indeterminate,
                       error_message_ |-> ""]
ResultVoid_error(error, message) ==
    [scope |-> TRUE, has_value_ |-> FALSE, error_ |-> error, error_message_ |-> message]

\* Result<T>::value() on an error Result returning a default-constructed T
Result_value_or_default(r) ==
    IF ~r.has_value_ THEN Returned(MovedFrom) ELSE Returned(r.value_.v)

\* Result<T>::value(): the reference to value_, or the TCFSException
Result_value(r) ==
    IF ~r.has_value_ THEN Thrown("TCFSException", r.error_, r.error_message_)
    ELSE Returned(r.value_.v)

\* Result<T>::getValue()
Result_getValue(r) == Result_value(r)

\* Result<void>::value()
ResultVoid_value(r) ==
    IF ~r.has_value_ THEN Thrown("TCFSException", r.error_, r.error_message_)
    ELSE [thrown |-> FALSE]

\* value_.~T() on the storage: what the storage becomes, and whether the
\* call hit storage without a live T
destroy_value(storage) == [storage |-> [storage EXCEPT !.live = FALSE], dead |-> ~storage.live]

\* new(&value_) T(...) with a constructor that returns: what the storage
\* becomes, and whether a live T was overwritten
construct_value(storage, v) == [storage |-> [live |-> TRUE, v |-> v], over |-> storage.live]

\* ~Result()
Result_destructor(r) ==
    LET destroyed == IF r.has_value_ THEN destroy_value(r.value_)
                     ELSE [storage |-> r.value_, dead |-> FALSE]
    IN [dead |-> destroyed.dead, leaked |-> destroyed.storage.live]

\* Result(const Result& other); throws when T's copy constructor does
Result_copy_constructor(other, copy_throws) ==
    IF other.has_value_ /\ copy_throws
    THEN [thrown |-> TRUE]
    ELSE [thrown |-> FALSE,
          this |-> [scope |-> TRUE, has_value_ |-> other.has_value_,
                    value_ |-> IF other.has_value_
                               THEN construct_value(NoValue, other.value_.v).storage
                               ELSE NoValue,
                    error_ |-> IF other.has_value_ THEN Indeterminate ELSE other.error_,
                    error_message_ |-> other.error_message_]]

\* Result(Result&& other) noexcept
Result_move_constructor(other) ==
    [this |-> [scope |-> TRUE, has_value_ |-> other.has_value_,
               value_ |-> IF other.has_value_
                          THEN construct_value(NoValue, other.value_.v).storage
                          ELSE NoValue,
               error_ |-> IF other.has_value_ THEN Indeterminate ELSE other.error_,
               error_message_ |-> other.error_message_],
     other |-> [other EXCEPT !.error_message_ = "",
                             !.value_.v = IF other.has_value_ THEN MovedFrom ELSE @]]

\* Result& operator=(const Result& other), this != &other
Result_copy_assignment(this, other, copy_throws) ==
    LET destroyed == IF this.has_value_ THEN destroy_value(this.value_)
                     ELSE [storage |-> this.value_, dead |-> FALSE]
        assigned == [this EXCEPT !.has_value_ = other.has_value_,
                                 !.error_message_ = other.error_message_,
                                 !.value_ = destroyed.storage]
        constructed == construct_value(destroyed.storage, other.value_.v)
    IN IF other.has_value_ /\ copy_throws
       THEN [thrown |-> TRUE, this |-> assigned, dead |-> destroyed.dead, over |-> FALSE]
       ELSE IF other.has_value_
       THEN [thrown |-> FALSE, this |-> [assigned EXCEPT !.value_ = constructed.storage,
                                                          !.error_ = Indeterminate],
             dead |-> destroyed.dead, over |-> constructed.over]
       ELSE [thrown |-> FALSE, this |-> [assigned EXCEPT !.error_ = other.error_],
             dead |-> destroyed.dead, over |-> FALSE]

\* Result& operator=(Result&& other) noexcept, this != &other
Result_move_assignment(this, other) ==
    LET copied == Result_copy_assignment(this, other, FALSE) IN
    [this |-> copied.this, dead |-> copied.dead, over |-> copied.over,
     other |-> [other EXCEPT !.error_message_ = "",
                             !.value_.v = IF other.has_value_ THEN MovedFrom ELSE @]]

InitResult ==
    /\ now = 0
    /\ PolicyAtRest
    /\ backend = "mock"
    /\ config = NoFile
    /\ files = [input |-> NoFile, store_ct |-> NoFile, store_meta |-> NoFile, out |-> NoFile]
    /\ sealed = NoSeal
    /\ pc = "idle"
    /\ last = NoLast
    /\ runs = 0
    /\ frame = [cmd |-> "results", locals |-> [x \in ResultNames |-> OutOfScope],
                void |-> OutOfScope, double_destroyed |-> FALSE, leaked |-> FALSE]

ResultVarsUnchanged ==
    UNCHANGED <<now, policy, reachedOnce, backend, config, files, sealed, pc, last, runs>>

\* the objects after a step that rebinds some locals and may have destroyed
\* dead storage or overwritten a live T
Rebind(bindings, dead, over) ==
    [frame EXCEPT !.locals = [x \in ResultNames |->
                                 IF x \in DOMAIN bindings THEN bindings[x] ELSE @[x]],
                  !.double_destroyed = @ \/ dead,
                  !.leaked = @ \/ over]

\* Result<T> x = Result<T>::success(value)
construct_success(x, value) ==
    /\ ~frame.locals[x].scope
    /\ frame' = Rebind(x :> Result_success(value), FALSE, FALSE)
    /\ ret' = [op |-> "construct", to |-> x]
    /\ ResultVarsUnchanged

\* Result<T> x = Result<T>::error(code, message)
construct_error(x, code, message) ==
    /\ ~frame.locals[x].scope
    /\ frame' = Rebind(x :> Result_error(code, message), FALSE, FALSE)
    /\ ret' = [op |-> "construct", to |-> x]
    /\ ResultVarsUnchanged

\* Result<T> x = y
copy_construct(x, y) ==
    /\ ~frame.locals[x].scope
    /\ frame.locals[y].scope
    /\ \E copy_throws \in BOOLEAN :
          LET made == Result_copy_constructor(frame.locals[y], copy_throws) IN
          IF made.thrown
          THEN /\ frame' = frame
               /\ ret' = [op |-> "copy", to |-> x, from |-> y, thrown |-> TRUE,
                          source |-> frame.locals[y]]
          ELSE /\ frame' = Rebind(x :> made.this, FALSE, FALSE)
               /\ ret' = [op |-> "copy", to |-> x, from |-> y, thrown |-> FALSE,
                          source |-> frame.locals[y]]
    /\ ResultVarsUnchanged

\* Result<T> x = std::move(y)
move_construct(x, y) ==
    /\ ~frame.locals[x].scope
    /\ frame.locals[y].scope
    /\ LET made == Result_move_constructor(frame.locals[y]) IN
       /\ frame' = Rebind(x :> made.this @@ y :> made.other, FALSE, FALSE)
       /\ ret' = [op |-> "move", to |-> x, from |-> y, source |-> frame.locals[y]]
    /\ ResultVarsUnchanged

\* x = y
copy_assign(x, y) ==
    /\ frame.locals[x].scope
    /\ frame.locals[y].scope
    /\ IF x = y
       THEN /\ frame' = frame
            /\ ret' = [op |-> "copy", to |-> x, from |-> y, thrown |-> FALSE,
                       source |-> frame.locals[y]]
       ELSE \E copy_throws \in BOOLEAN :
          LET made == Result_copy_assignment(frame.locals[x], frame.locals[y], copy_throws)
          IN /\ frame' = Rebind(x :> made.this, made.dead, made.over)
             /\ ret' = [op |-> "copy", to |-> x, from |-> y, thrown |-> made.thrown,
                        source |-> frame.locals[y]]
    /\ ResultVarsUnchanged

\* x = std::move(y)
move_assign(x, y) ==
    /\ frame.locals[x].scope
    /\ frame.locals[y].scope
    /\ IF x = y
       THEN frame' = frame
       ELSE LET made == Result_move_assignment(frame.locals[x], frame.locals[y]) IN
            frame' = Rebind(x :> made.this @@ y :> made.other, made.dead, made.over)
    /\ ret' = [op |-> "move", to |-> x, from |-> y, source |-> frame.locals[y]]
    /\ ResultVarsUnchanged

\* x goes out of scope
end_of_scope(x) ==
    /\ frame.locals[x].scope
    /\ LET ended == Result_destructor(frame.locals[x]) IN
       frame' = Rebind(x :> OutOfScope, ended.dead, ended.leaked)
    /\ ret' = [op |-> "destroy", to |-> x]
    /\ ResultVarsUnchanged

\* x.value() and x.getValue()
call_value(x, op) ==
    /\ frame.locals[x].scope
    /\ frame' = frame
    /\ ret' = [op |-> op, on |-> x] @@
              (IF op = "value" THEN Result_value(frame.locals[x])
               ELSE Result_getValue(frame.locals[x]))
    /\ ResultVarsUnchanged

\* Result<void> v = Result<void>::success() or ::error(code, message),
\* replacing the one in scope
construct_void(r) ==
    /\ frame' = [frame EXCEPT !.void = r]
    /\ ret' = [op |-> "construct", to |-> "void"]
    /\ ResultVarsUnchanged

\* v.value() on the Result<void>
call_void_value ==
    /\ frame.void.scope
    /\ frame' = frame
    /\ ret' = [op |-> "void_value"] @@ ResultVoid_value(frame.void)
    /\ ResultVarsUnchanged

\* isSuccess(), isError() and getErrorCode(), the same in Result<T> and in
\* Result<void>
Result_isSuccess(r) == r.has_value_

Result_isError(r) == ~r.has_value_

Result_getErrorCode(r) == IF r.has_value_ THEN "SUCCESS" ELSE r.error_

\* x.isSuccess(), x.isError(), x.getErrorCode() on a Result<T>
call_observers(x) ==
    /\ frame.locals[x].scope
    /\ frame' = frame
    /\ ret' = [op |-> "observers", on |-> x,
               isSuccess |-> Result_isSuccess(frame.locals[x]),
               isError |-> Result_isError(frame.locals[x]),
               getErrorCode |-> Result_getErrorCode(frame.locals[x])]
    /\ ResultVarsUnchanged

\* the same three calls on the Result<void>
call_void_observers ==
    /\ frame.void.scope
    /\ frame' = frame
    /\ ret' = [op |-> "observers", on |-> "void",
               isSuccess |-> Result_isSuccess(frame.void),
               isError |-> Result_isError(frame.void),
               getErrorCode |-> Result_getErrorCode(frame.void)]
    /\ ResultVarsUnchanged

NextResult ==
    \/ \E x \in ResultNames, value \in TValues : construct_success(x, value)
    \/ \E x \in ResultNames, code \in ErrorCodes, message \in ErrorMessages :
          construct_error(x, code, message)
    \/ \E x \in ResultNames, y \in ResultNames : copy_construct(x, y)
    \/ \E x \in ResultNames, y \in ResultNames : move_construct(x, y)
    \/ \E x \in ResultNames, y \in ResultNames : copy_assign(x, y)
    \/ \E x \in ResultNames, y \in ResultNames : move_assign(x, y)
    \/ \E x \in ResultNames : end_of_scope(x)
    \/ \E x \in ResultNames, op \in {"value", "getValue"} : call_value(x, op)
    \/ construct_void(ResultVoid_success)
    \/ \E code \in ErrorCodes, message \in ErrorMessages :
          construct_void(ResultVoid_error(code, message))
    \/ call_void_value
    \/ \E x \in ResultNames : call_observers(x)
    \/ call_void_observers

SpecResult == InitResult /\ [][NextResult]_vars

\* C17: accessing the value of an error Result (value() or getValue() on
\* Result<T>, value() on Result<void>) always throws a TCFSException
\* carrying that Result's error kind and message, never returns a defaulted
\* value, and leaves the Result unchanged; on a success Result it returns
\* the stored value.
C17_ValueThrowsOnErrorReturnsOnSuccess ==
    [][/\ ret'.op \in {"value", "getValue"} =>
            LET r == frame.locals[ret'.on] IN
            /\ frame' = frame
            /\ IF r.has_value_
               THEN ~ret'.thrown /\ ret'.value = r.value_.v
               ELSE /\ ret'.thrown
                    /\ ret'.kind = "TCFSException"
                    /\ ret'.code = r.error_
                    /\ ret'.message = r.error_message_
       /\ ret'.op = "void_value" =>
            /\ frame' = frame
            /\ IF frame.void.has_value_
               THEN ~ret'.thrown
               ELSE /\ ret'.thrown
                    /\ ret'.kind = "TCFSException"
                    /\ ret'.code = frame.void.error_
                    /\ ret'.message = frame.void.error_message_]_vars

C17_Witness ==
    /\ ret.op = "getValue"
    /\ ret.thrown
    /\ ret.code = "FileNotFound"
    /\ ret.message = "m"
    /\ frame.locals[ret.on] = Result_error("FileNotFound", "m")

\* what a Result reports: its success flag, its value, its error kind and
\* message
Reported(r) ==
    IF r.has_value_ THEN [has_value |-> TRUE, value |-> r.value_.v]
    ELSE [has_value |-> FALSE, error |-> r.error_, error_message |-> r.error_message_]

\* C18: after any sequence of copy/move constructions and copy/move
\* assignments among Result<T> objects, every Result holds exactly one live
\* alternative and each held value is destroyed exactly once; a copy
\* reports the same success flag, value, error kind and message as its
\* source, and the source is left unchanged.
C18_OneLiveAlternativeAndFaithfulCopies ==
    /\ frame.cmd = "results" =>
          /\ \A x \in ResultNames :
                frame.locals[x].scope =>
                   (frame.locals[x].has_value_ <=> frame.locals[x].value_.live)
          /\ ~frame.double_destroyed
          /\ ~frame.leaked
    /\ (ret.op = "copy" /\ ~ret.thrown) =>
          /\ Reported(frame.locals[ret.to]) = Reported(ret.source)
          /\ frame.locals[ret.from] = ret.source

\* the statement of C18 is preserved by every step in which T's copy
\* constructor does not throw
C18_HoldsWhileNoCopyAssignmentThrew ==
    [][(/\ C18_OneLiveAlternativeAndFaithfulCopies
        /\ ~(ret'.op = "copy" /\ ret'.thrown))
          => C18_OneLiveAlternativeAndFaithfulCopies']_vars

(***************************************************************************)
(* The crypto provider called directly, as tests/test_crypto.cpp does: a   *)
(* plaintext, a 32-byte key and a 12-byte IV are handed to encrypt() and   *)
(* the EncryptedData it returns to decrypt() with the same key and IV.     *)
(***************************************************************************)
PlaintextBytes == {0, 1, 72, 255}

\* a plaintext longer than the key, so that every key and IV byte is used
LongPlaintext == [i \in 1..(KeySize + IVSize) |-> (11 * i) % 256]

\* the bytes of CryptoTest.HexConversion and CryptoTest.Base64Conversion
ConversionTestBytes == <<1, 35, 69, 103, 137, 171, 205, 239>>

ProviderPlaintexts ==
    {<<>>} \cup {<<a>> : a \in PlaintextBytes}
           \cup {<<a, c>> : a \in PlaintextBytes, c \in PlaintextBytes}
           \cup {LongPlaintext, ConversionTestBytes}

\* StoredKey with bytes 0 and 16 exchanged: a different 32-byte key
SwappedKey ==
    [i \in 1..KeySize |->
        IF i = 1 THEN StoredKey[1 + TagSize]
        ELSE IF i = 1 + TagSize THEN StoredKey[1]
        ELSE StoredKey[i]]

CryptoKeys == GeneratedKeys \cup {StoredKey, SwappedKey}
CryptoIVs == GeneratedIVs \cup {[i \in 1..IVSize |-> 0]}

InitCrypto ==
    /\ now = 0
    /\ policy = DefaultPolicy
    /\ reachedOnce = FALSE
    /\ backend \in Backends
    /\ config = NoFile
    /\ files = [input |-> NoFile, store_ct |-> NoFile, store_meta |-> NoFile, out |-> NoFile]
    /\ sealed = NoSeal
    /\ pc = "idle"
    /\ frame = NoFrame
    /\ last = NoLast
    /\ runs = 0
    /\ \E plaintext \in ProviderPlaintexts, key \in CryptoKeys, iv \in CryptoIVs :
          ret = [op |-> "plaintext", plaintext |-> plaintext, key |-> key, iv |-> iv]

call_encrypt ==
    /\ ret.op = "plaintext"
    /\ ret' = [op |-> "encrypt", plaintext |-> ret.plaintext, key |-> ret.key,
               iv |-> ret.iv,
               encrypted |-> encrypt(backend, ret.plaintext, ret.key, ret.iv)]
    /\ UNCHANGED <<now, policy, reachedOnce, cliVars>>

call_decrypt ==
    /\ ret.op = "encrypt"
    /\ ret' = [op |-> "decrypt", plaintext |-> ret.plaintext, key |-> ret.key,
               iv |-> ret.iv, encrypted |-> ret.encrypted,
               decrypted |-> decrypt(backend, ret.encrypted, ret.key, ret.iv)]
    /\ UNCHANGED <<now, policy, reachedOnce, cliVars>>

\* data with bit `bit` of byte `i` (counted from 1) inverted
FlipBit(data, i, bit) ==
    [data EXCEPT ![i] = BitXor(@, 2 ^ bit)]

\* every EncryptedData that differs from `encrypted` in exactly one bit of
\* its ciphertext or of its tag
SingleBitFlips(encrypted) ==
    {[encrypted EXCEPT !.ciphertext = FlipBit(@, i, bit)] :
        i \in 1..Len(encrypted.ciphertext), bit \in 0..7}
    \cup
    {[encrypted EXCEPT !.tag = FlipBit(@, i, bit)] :
        i \in 1..Len(encrypted.tag), bit \in 0..7}

\* decrypt() of what encrypt() returned after one bit of it was inverted
call_decrypt_tampered ==
    /\ ret.op = "encrypt"
    /\ \E tampered \in SingleBitFlips(ret.encrypted) :
          ret' = [op |-> "decrypt_tampered", plaintext |-> ret.plaintext,
                  key |-> ret.key, iv |-> ret.iv, encrypted |-> ret.encrypted,
                  tampered |-> tampered,
                  decrypted |-> decrypt(backend, tampered, ret.key, ret.iv)]
    /\ UNCHANGED <<now, policy, reachedOnce, cliVars>>

\* decrypt() with a key other than the one encrypt() was given
call_decrypt_wrong_key ==
    /\ ret.op = "encrypt"
    /\ \E key2 \in CryptoKeys \ {ret.key} :
          ret' = [op |-> "decrypt_wrong_key", plaintext |-> ret.plaintext,
                  key |-> ret.key, iv |-> ret.iv, encrypted |-> ret.encrypted,
                  key2 |-> key2,
                  decrypted |-> decrypt(backend, ret.encrypted, key2, ret.iv)]
    /\ UNCHANGED <<now, policy, reachedOnce, cliVars>>

\* OpenSSLCryptoProvider::toHex: std::hex << std::uppercase, setw(2), fill '0'
openssl_toHex(data) ==
    Concat([i \in 1..Len(data) |->
              <<HexUpper[(data[i] \div 16) + 1], HexUpper[(data[i] % 16) + 1]>>])

\* OpenSSLCryptoProvider::fromHex: the same stoul loop as the mock's
openssl_fromHex(hex) ==
    LET prs == HexPairs(hex) IN
    IF \E k \in 1..Len(prs) : HexDigitValue(prs[k][1]) < 0
    THEN Thrown("std::exception", "invalid_argument", <<"stoul">>)
    ELSE Returned([k \in 1..Len(prs) |-> HexPairValue(prs[k])])

toHex(b, data) ==
    IF b = "mock" THEN mock_toHex(data) ELSE openssl_toHex(data)

fromHex(b, hex) ==
    IF b = "mock" THEN mock_fromHex(hex) ELSE openssl_fromHex(hex)

call_toHex ==
    /\ ret.op = "plaintext"
    /\ ret' = [op |-> "toHex", data |-> ret.plaintext,
               text |-> toHex(backend, ret.plaintext)]
    /\ UNCHANGED <<now, policy, reachedOnce, cliVars>>

call_fromHex ==
    /\ ret.op = "toHex"
    /\ ret' = [op |-> "fromHex", data |-> ret.data, text |-> ret.text,
               decoded |-> fromHex(backend, ret.text)]
    /\ UNCHANGED <<now, policy, reachedOnce, cliVars>>

call_toBase64 ==
    /\ ret.op = "plaintext"
    /\ ret' = [op |-> "toBase64", data |-> ret.plaintext,
               text |-> toBase64(backend, ret.plaintext)]
    /\ UNCHANGED <<now, policy, reachedOnce, cliVars>>

call_fromBase64 ==
    /\ ret.op = "toBase64"
    /\ ret' = [op |-> "fromBase64", data |-> ret.data, text |-> ret.text,
               decoded |-> fromBase64(backend, ret.text)]
    /\ UNCHANGED <<now, policy, reachedOnce, cliVars>>

NextCrypto ==
    \/ call_encrypt
    \/ call_decrypt
    \/ call_decrypt_tampered
    \/ call_decrypt_wrong_key
    \/ call_toHex
    \/ call_fromHex
    \/ call_toBase64
    \/ call_fromBase64

SpecCrypto == InitCrypto /\ [][NextCrypto]_vars

\* C20: on the OpenSSL provider and on the mock provider, for every
\* plaintext, the empty one included, with a 32-byte key and a 12-byte IV,
\* decrypt(encrypt(p, key, iv), key, iv) returns exactly p.
C20_DecryptInvertsEncrypt ==
    ret.op = "decrypt" =>
        /\ Len(ret.key) = KeySize
        /\ Len(ret.iv) = IVSize
        /\ ~ret.decrypted.thrown
        /\ ret.decrypted.value = ret.plaintext

C20_Witness ==
    /\ ret.op = "decrypt"
    /\ backend = "openssl"
    /\ ret.plaintext = LongPlaintext
    /\ ret.encrypted.ciphertext # ret.plaintext
    /\ ~ret.decrypted.thrown
    /\ ret.decrypted.value = ret.plaintext

C20_WitnessEmptyOnMock ==
    /\ ret.op = "decrypt"
    /\ backend = "mock"
    /\ ret.plaintext = <<>>
    /\ ~ret.decrypted.thrown
    /\ ret.decrypted.value = <<>>

\* C21: on every provider, the mock included, decrypt() of an EncryptedData
\* that differs in one bit of its ciphertext or tag from what encrypt()
\* returned fails with a crypto error under the same key and IV; it never
\* returns a plaintext other than the one encrypted.
C21_SingleBitFlipFailsDecrypt ==
    ret.op = "decrypt_tampered" =>
        /\ ret.decrypted.thrown
        /\ ret.decrypted.kind = "TCFSException"
        /\ ret.decrypted.code = "CRYPTO_ERROR"

\* the part of C21 the OpenSSL provider and the tag check of the mock keep
C21_HoldsForOpenSSLAndForTagFlips ==
    /\ ret.op = "decrypt_tampered"
    /\ backend = "openssl" \/ ret.tampered.tag # ret.encrypted.tag
    => /\ ret.decrypted.thrown
       /\ ret.decrypted.code = "CRYPTO_ERROR"

\* C22: on every provider, for distinct 32-byte keys k1 and k2,
\* decrypt(encrypt(p, k1, iv), k2, iv) throws a TCFSException and returns
\* no bytes.
C22_WrongKeyFailsDecrypt ==
    ret.op = "decrypt_wrong_key" =>
        /\ ret.key # ret.key2
        /\ Len(ret.key) = KeySize /\ Len(ret.key2) = KeySize
        /\ ret.decrypted.thrown
        /\ ret.decrypted.kind = "TCFSException"

\* the part of C22 that holds: the OpenSSL provider, and on the mock every
\* second key whose 16-byte XOR fold differs from the first key's
C22_HoldsWhenTagsDiffer ==
    /\ ret.op = "decrypt_wrong_key"
    /\ backend = "openssl" \/ mock_tag(ret.key) # mock_tag(ret.key2)
    => /\ ret.decrypted.thrown
       /\ ret.decrypted.kind = "TCFSException"

\* C23: on every provider and for every byte sequence b, the empty one
\* included, fromHex(toHex(b)) = b and fromBase64(toBase64(b)) = b; the
\* empty sequence encodes to the empty string, and the empty string decodes
\* to the empty sequence without error.
C23_CodecsRoundTrip ==
    /\ ret.op \in {"toHex", "toBase64"} /\ ret.data = <<>> => ret.text = <<>>
    /\ ret.op \in {"fromHex", "fromBase64"} =>
          /\ ~ret.decoded.thrown
          /\ ret.decoded.value = ret.data

\* the part of C23 that holds: hex on both providers, base64 on the OpenSSL
\* provider, and the mock's base64 for every sequence but the empty one
C23_HoldsButForEmptyMockBase64 ==
    /\ ret.op \in {"toHex", "toBase64"} /\ ret.data = <<>> => ret.text = <<>>
    /\ /\ ret.op \in {"fromHex", "fromBase64"}
       /\ ~(ret.op = "fromBase64" /\ backend = "mock" /\ ret.data = <<>>)
       => /\ ~ret.decoded.thrown
          /\ ret.decoded.value = ret.data

\* C24: toHex of whichever provider createCryptoProvider() returns writes
\* each byte as exactly two uppercase hexadecimal digits in input order
\* (01 23 45 67 89 AB CD EF gives "0123456789ABCDEF"), so both providers
\* give the same text for the same bytes.
C24_ToHexIsUppercaseOnEveryProvider ==
    ret.op = "toHex" =>
        /\ Len(ret.text) = 2 * Len(ret.data)
        /\ \A i \in 1..Len(ret.data) :
              /\ ret.text[2 * i - 1] = HexUpper[(ret.data[i] \div 16) + 1]
              /\ ret.text[2 * i] = HexUpper[(ret.data[i] % 16) + 1]
        /\ ret.data = ConversionTestBytes =>
              ret.text = <<"0","1","2","3","4","5","6","7",
                           "8","9","A","B","C","D","E","F">>
        /\ ret.text = toHex("openssl", ret.data)
        /\ ret.text = toHex("mock", ret.data)

\* the part of C24 that holds: two digits per byte in input order on both
\* providers, uppercase on the OpenSSL provider
C24_HoldsUpToLetterCase ==
    ret.op = "toHex" =>
        /\ Len(ret.text) = 2 * Len(ret.data)
        /\ \A i \in 1..Len(ret.data) :
              /\ HexDigitValue(ret.text[2 * i - 1]) = ret.data[i] \div 16
              /\ HexDigitValue(ret.text[2 * i]) = ret.data[i] % 16
        /\ backend = "openssl" => ret.text = openssl_toHex(ret.data)

(***************************************************************************)
(* CryptoKey (CryptoProvider.hpp): a move-only owner of a byte vector.     *)
(* A vector is its size and the storage it owns; `origin` numbers the      *)
(* construction that produced the key's bytes.  Storage handed back to     *)
(* the allocator is kept in `released` as it was left.                     *)
(***************************************************************************)
KeyNames == {"k1", "k2", "k3"}
KeyMaterial == {<<17, 34>>, <<51>>}
MaxKeysMade == 3

EmptyVector == [size |-> 0, storage |-> <<>>, origin |-> 0]

\* CryptoKey() = default
CryptoKey_default == [scope |-> TRUE, data |-> EmptyVector]

\* explicit CryptoKey(std::vector<uint8_t> key_data) : data(std::move(key_data))
CryptoKey_from_bytes(key_data, origin) ==
    [scope |-> TRUE,
     data |-> [size |-> Len(key_data), storage |-> key_data, origin |-> origin]]

\* explicit CryptoKey(size_t size) : data(size)
CryptoKey_of_size(size, origin) ==
    [scope |-> TRUE,
     data |-> [size |-> size, storage |-> [i \in 1..size |-> 0], origin |-> origin]]

\* clear() that drops the elements without the std::fill
CryptoKey_clear_without_fill(key) ==
    [key EXCEPT !.data.size = 0]

\* clear(): std::fill(begin, end, 0) and data.clear() when not empty; the
\* vector keeps its storage
CryptoKey_clear(key) ==
    IF key.data.size # 0
    THEN [key EXCEPT !.data.storage = [i \in 1..Len(@) |-> IF i <= key.data.size THEN 0 ELSE @[i]],
                     !.data.size = 0]
    ELSE key

\* ~CryptoKey() { clear(); } followed by the vector's destructor, which
\* hands the storage back
CryptoKey_destructor(key) ==
    [released |-> IF key.data.storage # <<>>
                  THEN {CryptoKey_clear(key).data.storage} ELSE {}]

\* a move constructor that copies the vector and leaves the source as it was
CryptoKey_move_constructor_copying(other) ==
    [made |-> [scope |-> TRUE, data |-> other.data], other |-> other]

\* CryptoKey(CryptoKey&& other) noexcept : data(std::move(other.data))
CryptoKey_move_constructor(other) ==
    [made |-> [scope |-> TRUE, data |-> other.data],
     other |-> [other EXCEPT !.data = EmptyVector]]

\* operator=(CryptoKey&& other) for this != &other: clear(), then
\* data = std::move(other.data), which hands this->data's storage back
CryptoKey_move_assignment(this, other) ==
    LET cleared == CryptoKey_clear(this) IN
    [this |-> [cleared EXCEPT !.data = other.data],
     other |-> [other EXCEPT !.data = EmptyVector],
     released |-> IF cleared.data.storage # <<>> THEN {cleared.data.storage} ELSE {}]

InitKey ==
    /\ now = 0
    /\ PolicyAtRest
    /\ backend = "mock"
    /\ config = NoFile
    /\ files = [input |-> NoFile, store_ct |-> NoFile, store_meta |-> NoFile, out |-> NoFile]
    /\ sealed = NoSeal
    /\ pc = "idle"
    /\ last = NoLast
    /\ runs = 0
    /\ frame = [cmd |-> "keys", keys |-> [x \in KeyNames |-> OutOfScope],
                made |-> 0, released |-> {}]

\* CryptoKey x; / CryptoKey x(bytes); / CryptoKey x(size);
key_construct(x) ==
    /\ ~frame.keys[x].scope
    /\ \/ /\ frame' = [frame EXCEPT !.keys[x] = CryptoKey_default]
          /\ ret' = [op |-> "key_default", to |-> x]
       \/ /\ frame.made < MaxKeysMade
          /\ \E key_data \in KeyMaterial :
                frame' = [frame EXCEPT
                             !.keys[x] = CryptoKey_from_bytes(key_data, frame.made + 1),
                             !.made = @ + 1]
          /\ ret' = [op |-> "key_from_bytes", to |-> x]
       \/ /\ frame.made < MaxKeysMade
          /\ \E size \in {1, 2} :
                frame' = [frame EXCEPT
                             !.keys[x] = CryptoKey_of_size(size, frame.made + 1),
                             !.made = @ + 1]
          /\ ret' = [op |-> "key_of_size", to |-> x]
    /\ ResultVarsUnchanged

\* CryptoKey x(std::move(y));
key_move_construct(x, y) ==
    /\ ~frame.keys[x].scope
    /\ frame.keys[y].scope
    /\ LET moved == CryptoKey_move_constructor(frame.keys[y]) IN
       frame' = [frame EXCEPT !.keys[x] = moved.made, !.keys[y] = moved.other]
    /\ ret' = [op |-> "key_move_construct", to |-> x, from |-> y,
               bytes |-> SubSeq(frame.keys[y].data.storage, 1, frame.keys[y].data.size)]
    /\ ResultVarsUnchanged

\* x = std::move(y); a self-assignment does nothing
key_move_assign(x, y) ==
    /\ frame.keys[x].scope
    /\ frame.keys[y].scope
    /\ IF x = y
       THEN frame' = frame
       ELSE LET moved == CryptoKey_move_assignment(frame.keys[x], frame.keys[y]) IN
            frame' = [frame EXCEPT !.keys[x] = moved.this, !.keys[y] = moved.other,
                                   !.released = @ \cup moved.released]
    /\ ret' = [op |-> "key_move_assign", to |-> x, from |-> y,
               bytes |-> SubSeq(frame.keys[y].data.storage, 1, frame.keys[y].data.size),
               previous |-> SubSeq(frame.keys[x].data.storage, 1, frame.keys[x].data.size)]
    /\ ResultVarsUnchanged

\* x.clear();
key_clear(x) ==
    /\ frame.keys[x].scope
    /\ frame' = [frame EXCEPT !.keys[x] = CryptoKey_clear(@)]
    /\ ret' = [op |-> "key_clear", to |-> x,
               previous |-> SubSeq(frame.keys[x].data.storage, 1, frame.keys[x].data.size)]
    /\ ResultVarsUnchanged

\* x goes out of scope
key_destroy(x) ==
    /\ frame.keys[x].scope
    /\ frame' = [frame EXCEPT !.keys[x] = OutOfScope,
                              !.released = @ \cup CryptoKey_destructor(frame.keys[x]).released]
    /\ ret' = [op |-> "key_destroy", to |-> x,
               previous |-> SubSeq(frame.keys[x].data.storage, 1, frame.keys[x].data.size)]
    /\ ResultVarsUnchanged

NextKey ==
    \/ \E x \in KeyNames : key_construct(x)
    \/ \E x, y \in KeyNames : key_move_construct(x, y)
    \/ \E x, y \in KeyNames : key_move_assign(x, y)
    \/ \E x \in KeyNames : key_clear(x)
    \/ \E x \in KeyNames : key_destroy(x)

SpecKey == InitKey /\ [][NextKey]_vars

AllZero(storage) == \A i \in 1..Len(storage) : storage[i] = 0

HoldsBytes(x) == frame.keys[x].scope /\ frame.keys[x].data.size > 0

\* C25: after any sequence of constructions, move constructions, move
\* assignments, clear() calls and destructions, at most one CryptoKey holds
\* the bytes of a given key; a moved-from key is empty; the previous bytes of
\* a move-assignment target are zeroed before they are replaced; and the
\* bytes of a key are overwritten with zeros when its owner is cleared or
\* destroyed.
C25_ExclusiveOwnershipAndZeroing ==
    /\ \A x, y \in KeyNames :
          x # y /\ HoldsBytes(x) /\ HoldsBytes(y) =>
              frame.keys[x].data.origin # frame.keys[y].data.origin
    /\ ret.op \in {"key_move_construct", "key_move_assign"} /\ ret.to # ret.from =>
          /\ frame.keys[ret.from].data.size = 0
          /\ frame.keys[ret.from].data.storage = <<>>
          /\ SubSeq(frame.keys[ret.to].data.storage, 1, frame.keys[ret.to].data.size)
                = ret.bytes
    /\ \A storage \in frame.released : AllZero(storage)
    /\ ret.op = "key_clear" =>
          /\ frame.keys[ret.to].data.size = 0
          /\ AllZero(frame.keys[ret.to].data.storage)

C25_Witness ==
    /\ ret.op = "key_move_assign"
    /\ ret.to # ret.from
    /\ ret.previous = <<17, 34>>
    /\ ret.bytes = <<51>>
    /\ <<0, 0>> \in frame.released
    /\ HoldsBytes(ret.to)
    /\ ~HoldsBytes(ret.from)

(***************************************************************************)
(* Policy::setGracePeriodMinutes / getGracePeriodMinutes at the true width *)
(* of grace_seconds_.  A uint32_t is kept as its two 16-bit halves,        *)
(* value = hi * 2^16 + lo, so that the arithmetic modulo 2^32 is computed  *)
(* and not assumed.                                                        *)
(***************************************************************************)
Half == 2 ^ 16

uint32(hi, lo) == [hi |-> hi, lo |-> lo]

\* minutes * 60 in unsigned 32-bit arithmetic: the carry out of the upper
\* half is dropped
uint32_times_60(minutes) ==
    LET low == minutes.lo * 60
        high == minutes.hi * 60 + (low \div Half)
    IN uint32(high % Half, low % Half)

\* grace_seconds_ / 60 in unsigned 32-bit arithmetic
uint32_div_60(seconds) ==
    LET rest == (seconds.hi % 60) * Half + seconds.lo
    IN uint32(seconds.hi \div 60, rest \div 60)

\* 60 * minutes as a number, in three 16-bit parts
ExactTimes60(minutes) ==
    LET low == minutes.lo * 60
        high == minutes.hi * 60 + (low \div Half)
    IN [top |-> high \div Half, hi |-> high % Half, lo |-> low % Half]

\* 0..15, the test's 30, and the values around 2^32 / 60 = 71582788.27
MinutesArgs ==
    {uint32(hi, lo) : hi \in {0, 1, 1092, 1093, 65535},
                      lo \in 0..15 \cup {30, 17476, 17477, 65535}}

InitGrace ==
    /\ now = 0
    /\ policy = DefaultPolicy
    /\ reachedOnce = FALSE
    /\ CliAtRest
    /\ \E minutes \in MinutesArgs : ret = [op |-> "minutes", minutes |-> minutes]

setGracePeriodMinutes ==
    /\ ret.op = "minutes"
    /\ ret' = [op |-> "setGracePeriodMinutes", minutes |-> ret.minutes,
               grace_seconds_ |-> uint32_times_60(ret.minutes)]
    /\ UNCHANGED <<now, policy, reachedOnce, cliVars>>

getGracePeriodMinutes ==
    /\ ret.op = "setGracePeriodMinutes"
    /\ ret' = [op |-> "getGracePeriodMinutes", minutes |-> ret.minutes,
               grace_seconds_ |-> ret.grace_seconds_,
               returned |-> uint32_div_60(ret.grace_seconds_)]
    /\ UNCHANGED <<now, policy, reachedOnce, cliVars>>

NextGrace ==
    \/ setGracePeriodMinutes
    \/ getGracePeriodMinutes

SpecGrace == InitGrace /\ [][NextGrace]_vars

\* C26: for every uint32 minutes value m, after setGracePeriodMinutes(m)
\* getGracePeriodMinutes() returns m and grace_seconds() is 60 * m, the
\* 32-bit seconds field not wrapping around.
C26_MinutesRoundTripWithoutWrap ==
    /\ ret.op \in {"setGracePeriodMinutes", "getGracePeriodMinutes"} =>
          ExactTimes60(ret.minutes) =
              [top |-> 0, hi |-> ret.grace_seconds_.hi, lo |-> ret.grace_seconds_.lo]
    /\ ret.op = "getGracePeriodMinutes" => ret.returned = ret.minutes

\* the part of C26 that holds: every m with 60 * m below 2^32
C26_HoldsBelowWrap ==
    /\ ret.op \in {"setGracePeriodMinutes", "getGracePeriodMinutes"}
    /\ ExactTimes60(ret.minutes).top = 0
    => /\ ExactTimes60(ret.minutes) =
              [top |-> 0, hi |-> ret.grace_seconds_.hi, lo |-> ret.grace_seconds_.lo]
       /\ ret.op = "getGracePeriodMinutes" => ret.returned = ret.minutes

\* C27: a policy that validate() accepts at instant t is not unlockable at
\* t: for every grace_seconds, validate() succeeding at t implies that
\* is_unlock_time_reached() is false at t.
C27_ValidPolicyNotYetUnlockable ==
    ret.op = "validate" /\ ret.val.has_value =>
        ~is_unlock_time_reached(policy, now)

\* the part of C27 that holds: a policy without a grace period
C27_HoldsWithoutGrace ==
    ret.op = "validate" /\ ret.val.has_value /\ policy.grace_seconds = 0 =>
        ~is_unlock_time_reached(policy, now)

\* C28: at every clock instant time_remaining() returns 0 seconds exactly
\* when is_unlock_time_reached() returns true; a policy not yet reachable
\* reports a strictly positive number of seconds, also when less than one
\* second remains.
C28_ZeroRemainingIffReached ==
    ret.op = "time_remaining" =>
        (ret.val = 0 <=> is_unlock_time_reached(policy, now))

\* the part of C28 that holds: a reached policy reports 0, and one that
\* reports a positive number is not reached
C28_ReachedReportsZero ==
    ret.op = "time_remaining" =>
        (is_unlock_time_reached(policy, now) => ret.val = 0)

\* C29: cmd_lock removes the original input file only after both the
\* ciphertext file and the metadata file have been written to the store; if
\* an earlier step fails (policy parse or validation, reading the input, key
\* generation, encryption, creating or serializing either output file) the
\* input file is left in place.
C29_InputRemovedOnlyAfterBothWritten ==
    [][/\ pc # "idle" \/ runs' = runs + 1
       /\ pc' = "idle"
       /\ last'.cmd = "lock"
       => /\ last'.thrown => files'.input = files.input
          /\ files'.input # files.input =>
                /\ last'.outcome = "locked"
                /\ files'.store_ct = File(last'.encrypted_data.ciphertext)
                /\ files'.store_meta.content.json
                /\ last'.ct_written /\ last'.meta_written]_vars

\* the part of C29 that holds: a cmd_lock that throws leaves the input file
\* in place, and the input file is removed only at the end of a run that
\* opened both store files
C29_ThrowingLockKeepsInput ==
    [][/\ pc # "idle" \/ runs' = runs + 1
       /\ pc' = "idle"
       /\ last'.cmd = "lock"
       => /\ last'.thrown => files'.input = files.input
          /\ files'.input # files.input =>
                /\ last'.outcome = "locked"
                /\ files'.store_ct.exists
                /\ files'.store_meta.exists]_vars

\* C30: for every Result<T> and Result<void> reachable through the public
\* constructors and the success/error factories, isSuccess() is the
\* negation of isError(), and getErrorCode() is ErrorCode::SUCCESS exactly
\* when isSuccess() is true.
C30_SuccessIffErrorCodeSuccess ==
    ret.op = "observers" =>
        /\ ret.isSuccess = ~ret.isError
        /\ ret.getErrorCode = "SUCCESS" <=> ret.isSuccess

\* the part of C30 that holds: isSuccess() negates isError(), a success
\* reports SUCCESS, and an error Result reports the code it was built with
C30_HoldsButForErrorBuiltWithSuccess ==
    ret.op = "observers" =>
        LET r == IF ret.on = "void" THEN frame.void ELSE frame.locals[ret.on] IN
        /\ ret.isSuccess = ~ret.isError
        /\ ret.isSuccess => ret.getErrorCode = "SUCCESS"
        /\ ret.isError => ret.getErrorCode = r.error_

=============================================================================
